---- MODULE Spec2Model ----
(***************************************************************************)
(* soar-dl: the resumable file downloader (Downloader::download), the OCI  *)
(* blob pull (OciClient::pull_layer), the OCI downloader (download_oci,    *)
(* download_blob) and its retry loop (handle_oci_download).                *)
(*                                                                         *)
(* A target path owns three files: the final file, the part file and the   *)
(* sidecar meta file.  A call is a small program whose steps are the await *)
(* points of the code; the server's answers are chosen nondeterministically*)
(***************************************************************************)
EXTENDS Integers, Sequences, FiniteSets, TLC

\* ---------------------------------------------------------------- bounds
\* Length in bytes of the first version of an upstream resource.
MaxLen == 2
\* Number of download calls made one after the other on the same target.
MaxCalls == 2

\* ------------------------------------------------------------ HTTP status
OK == 200
RANGE_NOT_SATISFIABLE == 416
TOO_MANY_REQUESTS == 429

\* -------------------------------------------------------------- the files
NoFile == [ex |-> FALSE, data |-> <<>>]
File(bytes) == [ex |-> TRUE, data |-> bytes]
\* The sidecar: absent, or a JSON text that decodes (ok) to {etag, last_modified}.
\* 0 stands for an absent (None) etag or last-modified value.
NoMeta == [ex |-> FALSE, ok |-> TRUE, etag |-> 0, lm |-> 0]
MetaOf(e, m) == [ex |-> TRUE, ok |-> TRUE, etag |-> e, lm |-> m]
NoFiles == [final |-> NoFile, part |-> NoFile, meta |-> NoMeta]

\* Number of layers of the OCI manifest.
NLayers == 2
\* Number of requests or chunk reads of layer tasks that fail in one run.
MaxFaults == 1
Layers == 1..NLayers

\* The target paths: Target is the output path of the single-file calls and
\* of a blob download, path l is base_path joined with the title of layer l.
Target == 0
Paths == {Target} \cup Layers

\* ------------------------------------------------------------- the server
\* An upstream resource has two versions: the one first published and the
\* one after it changed.
Versions == {1, 2}
\* The bytes of version v of a resource: version 1 has MaxLen bytes, version 2
\* is one byte longer, and no byte value is shared between two versions or
\* two offsets.
Content(v) == [i \in 1..(MaxLen + v - 1) |-> 10 * v + i]
\* The validators of version v (0 = the header is not sent).
ETagOf(v) == v
ModifiedOf(v) == v
\* The bytes of the blob with digest d: two bytes for an odd digest, one for
\* an even one, shared with no other blob.
Blob(d) == [i \in 1..(1 + (d % 2)) |-> 100 * d + i]

NoResponse ==
    [status |-> 0, etag |-> 0, lm |-> 0, crStart |-> -1, crTotal |-> -1,
     clen |-> -1, body |-> <<>>, how |-> "none"]

\* What a server can answer to GET with "Range: bytes=s-" (s = -1: no Range
\* header) for a resource whose current bytes are C with validators e, m.
\*   honour: 206 from offset s;  ignore: 200 with the full body;
\*   shift:  206 that restarts at offset 0;  unsat: 416;  error: 404, 429.
Answers(C, e, m, s) ==
    LET n == Len(C)
        Hdr == {<<x, y>> : x \in {0, e}, y \in {0, m}}
        Mk(st, h, cs, ct, cl, b, how) ==
            [status |-> st, etag |-> h[1], lm |-> h[2], crStart |-> cs,
             crTotal |-> ct, clen |-> cl, body |-> b, how |-> how]
    IN  {Mk(OK, h, -1, -1, n, C, "ignore") : h \in Hdr}
        \cup (IF s >= 0 /\ s < n
              THEN {Mk(206, h, s, n, n - s, SubSeq(C, s + 1, n), "honour")
                        : h \in Hdr}
              ELSE {})
        \cup (IF s > 0
              THEN {Mk(206, h, 0, n, n, C, "shift") : h \in Hdr}
              ELSE {})
        \cup {Mk(RANGE_NOT_SATISFIABLE, <<x, 0>>, -1, -1, 0, <<>>,
                 IF s >= n THEN "honour" ELSE "unsat") : x \in {0, e}}
        \cup {Mk(st, <<0, 0>>, -1, -1, 0, <<>>, "error")
                        : st \in {404, TOO_MANY_REQUESTS}}

IsSuccess(status) == status >= 200 /\ status <= 299

\* ------------------------------------------------------------------ state
VARIABLES
    fs,        \* path -> [final, part, meta]: the three files of a target
    ver,       \* path -> the current upstream version of its resource
    task,      \* task -> the state of the call that task is executing
    events,    \* the DownloadState values handed to the progress callback
    counter,   \* downloaded_bytes, the byte counter shared by the layer callbacks
    calls,     \* number of calls started so far on the single-file target
    mgr,       \* handle_oci_download and the download_oci call it is making
    permits,   \* the permits available in the semaphore of download_oci
    completed, \* completed_layers: the digests of the layers pulled so far
    faults,    \* number of failures the layer tasks have met so far
    pth,       \* the paths Downloader::download derives from its options
    exe,       \* DownloadManager::execute: its position in the lists of inputs
    http,      \* SHARED_CLIENT_STATE, its lock, and the threads that use it
    rel,       \* ReleaseHandler::fetch_releases: its calls and its result
    sel,       \* ReleaseHandler::filter_releases: its arguments and its result
    pat,       \* matches_pattern: its arguments and its result
    purl       \* PlatformUrl::parse: its argument and its result

\* The variables of the transfers, and those of the other components.
transfer == <<fs, ver, task, events, counter, calls, mgr, permits, completed, faults>>
others == <<pth, exe, http, rel, sel, pat, purl>>
vars == <<transfer, others>>

\* The registry fails a bounded number of times on the layer tasks.
MayFail(t) == t \notin Layers \/ faults < MaxFaults

\* Task 0 is the caller's own task, task l is the task spawned for layer l.
Tasks == {0} \cup Layers

IdleTask ==
    [pc |-> "idle", kind |-> "none", path |-> Target, digest |-> 0,
     mode |-> "Force",
     attempt |-> 0, downloaded |-> 0, etag |-> 0, lm |-> 0,
     req |-> [range |-> -1, ifrange |-> <<>>], resp |-> NoResponse,
     stream |-> <<>>, res |-> "none", status |-> 0, nreq |-> 0, cb |-> "plain",
     pre |-> NoFiles, v0 |-> 1, honest |-> TRUE, streamed |-> <<>>,
     xfer |-> FALSE, etag1 |-> 0, out |-> "path", ret |-> "none"]

\* The caller of download_oci before its first call: handle_oci_download,
\* or a library caller that owns the OciDownloader and calls it again.
\* `ref` tells whether the reference names a manifest or a blob, `conc` is
\* the concurrency option (-1 = None).  A manifest gives its layers titles
\* that differ ("manifest") or one title to all of them ("twins").
IdleManager ==
    [pc |-> "check", caller |-> "handle_oci_download", retries |-> 0,
     inv |-> 0, ref |-> "manifest", conc |-> -1,
     mode |-> "Force", idx |-> 1, res |-> "none", status |-> 0]

\* Downloader::download before it has looked at its options.  A path is a
\* sequence of components, a file name a sequence of dot-separated pieces;
\* <<>> stands for None.
NoPaths ==
    [pc |-> "off", out |-> <<>>, slash |-> FALSE, isdir |-> FALSE,
     urlname |-> <<>>, hdrname |-> <<>>, provisional |-> <<>>,
     final_dir |-> <<>>, part |-> <<>>, meta |-> <<>>, target |-> <<>>,
     written |-> <<>>, returned |-> <<>>]

\* DownloadManager before execute is called.
NoExecute ==
    [pc |-> "off", group |-> 1, idx |-> 1, output |-> "path", mode |-> "Force",
     processed |-> {}, failed |-> FALSE]

\* ClientConfig::default(), and the client ClientConfig::build makes of a
\* config: a client is known by the config it was built from.
DefaultConfig == [user_agent |-> "pkgforge/soar", proxy |-> "none"]
ClientOf(config) == [from |-> config]

\* The threads that call configure_http_client, and those that read the
\* shared state.
Writers == {"w1", "w2"}
Readers == {"r1"}
IdleThread ==
    [pc |-> "idle", new_config |-> DefaultConfig,
     new_client |-> ClientOf(DefaultConfig), res |-> "none",
     seen |-> <<>>, old |-> <<>>]

\* SHARED_CLIENT_STATE after its LazyLock initializer: the RwLock is held by
\* no writer (w) and no reader (r).  `shared` is SHARED_CLIENT, the second
\* LazyLock, not yet initialised (<<>>); `used` is the client behind the
\* reference a live Downloader::default() holds (<<>>: there is none).
InitialClient ==
    [client |-> ClientOf(DefaultConfig), config |-> DefaultConfig,
     shared |-> <<>>, used |-> <<>>,
     w |-> "none", r |-> {},
     thr |-> [t \in Writers \cup Readers |-> IdleThread]]

\* No fetch_releases call has been made.
NoFetch ==
    [pc |-> "off", valid |-> TRUE, token |-> FALSE, calls |-> <<>>,
     status |-> 0, res |-> "none"]

\* No filter_releases, matches_pattern or PlatformUrl::parse call has been
\* made.
NoneTag == [some |-> FALSE, v |-> <<>>]
NoSelect ==
    [pc |-> "off", path |-> "platform.rs", releases |-> <<>>, tag |-> NoneTag,
     match_keywords |-> <<>>, res |-> [kind |-> "none"], release |-> 0]
NoMatch ==
    [pc |-> "off", name |-> <<>>, regexes |-> <<>>, globs |-> <<>>,
     match_keywords |-> <<>>, exclude_keywords |-> <<>>, exact_case |-> FALSE,
     accepted |-> FALSE]
NoParse == [pc |-> "off", input |-> <<>>, res |-> [kind |-> "none", v |-> <<>>]]
PureIdle ==
    /\ sel = NoSelect
    /\ pat = NoMatch
    /\ purl = NoParse

\* The components that are not part of a transfer, at rest.
OthersIdle ==
    /\ pth = NoPaths
    /\ exe = NoExecute
    /\ http = InitialClient
    /\ rel = NoFetch
    /\ PureIdle

\* The target of the single-file calls does not exist yet, or exists as the
\* file an earlier run downloaded.
InitTransfer ==
    /\ \E f \in {NoFile, File(Content(1))} :
           fs = [p \in Paths |-> [NoFiles EXCEPT !.final = IF p = Target THEN f ELSE NoFile]]
    /\ ver = [p \in Paths |-> 1]
    /\ task = [t \in Tasks |-> IdleTask]
    /\ events = <<>>
    /\ counter = 0
    /\ calls = 0
    /\ mgr = [IdleManager EXCEPT !.pc = "off"]
    /\ permits = 0
    /\ completed = {}
    /\ faults = 0

Init ==
    /\ InitTransfer
    /\ OthersIdle


\* ------------------------------------------------------------ the events
Preparing(n) == [ev |-> "Preparing", n |-> n, tot |-> 0]
Progress(n) == [ev |-> "Progress", n |-> n, tot |-> 0]
Complete == [ev |-> "Complete", n |-> 0, tot |-> 0]
\* DownloadState::Error: a variant no code of the library constructs.
Error == [ev |-> "Error", n |-> 0, tot |-> 0]
\* A call of the progress callback handed to pull_layer by a direct caller.
Called(bytes, total) == [ev |-> "Called", n |-> bytes, tot |-> total]

\* Mutant: the closure reports the bytes of the chunk, not the counter.
Callback_Delta(cb, bytes, total, evs, ctr) ==
    <<Append(evs, Progress(bytes)), ctr + bytes>>

\* The callback pull_layer is given, applied to (bytes, total): the pair
\* <<events, counter>> after the call.
\*   layer: the closure of download_oci;  blob: the closure of download_blob.
Callback(cb, bytes, total, evs, ctr) ==
    CASE cb = "layer" -> <<Append(evs, Progress(ctr + bytes)), ctr + bytes>>
      [] cb = "blob" ->
            <<Append(IF total > 0 THEN Append(evs, Preparing(total)) ELSE evs,
                     Progress(ctr + bytes)), ctr + bytes>>
      [] OTHER -> <<Append(evs, Called(bytes, total)), ctr>>

\* ----------------------------------------------------- resume decisions
\* Downloader::download: the `changed` flag.  The second disjunct tests the
\* local last-modified twice and never the remote one.
Changed(etag, lm, retag, rlm) ==
    \/ (etag # 0 /\ retag # 0 /\ etag # retag)
    \/ (lm # 0 /\ lm # 0 /\ lm # rlm)

\* ResumeSupport::should_restart_download.
ShouldRestartDownload(status, etag, lm, retag, rlm) ==
    \/ status = RANGE_NOT_SATISFIABLE
    \/ (etag # 0 /\ retag # 0 /\ etag # retag)
    \/ (lm # 0 /\ rlm # 0 /\ lm # rlm)

\* The restart condition of a call of the given kind, without the attempt test.
RestartWanted(kind, status, etag, lm, retag, rlm) ==
    IF kind = "dl"
    THEN status = RANGE_NOT_SATISFIABLE \/ Changed(etag, lm, retag, rlm)
    ELSE ShouldRestartDownload(status, etag, lm, retag, rlm)

\* Mutant: the restart is taken on every attempt.
RestartAllowed_Always(attempt) == TRUE

\* `&& attempt == 0`: the restart is taken on the first attempt only.
RestartAllowed(attempt) == attempt = 0

\* total_size: the total of Content-Range, else Content-Length, else 0.
TotalSize(resp) ==
    IF resp.crTotal # -1 THEN resp.crTotal
    ELSE IF resp.clen # -1 THEN resp.clen ELSE 0

\* Mutant: the part file is never truncated.
ShouldTruncate_Never(resp, downloaded) == FALSE

\* Mutant: a 200 answer does not truncate the part file.
ShouldTruncate_NoOk(resp, downloaded) ==
    resp.crStart # -1 /\ resp.crStart # downloaded

\* Downloader::download: should_truncate.
ShouldTruncate(resp, downloaded) ==
    (resp.crStart # -1 /\ resp.crStart # downloaded) \/ resp.status = OK

\* ResumeSupport::extract_range_info: <<should_truncate, total_size>>.
ExtractRangeInfo(resp, downloaded) ==
    <<resp.crStart # -1 /\ resp.crStart # downloaded, TotalSize(resp)>>

\* The Range / If-Range headers of Downloader::download: Range is always
\* sent, and both validators are appended when present.
DownloadHeaders(downloaded, etag, lm) ==
    [range |-> downloaded,
     ifrange |-> (IF etag # 0 THEN <<<<"etag", etag>>>> ELSE <<>>)
                 \o (IF lm # 0 THEN <<<<"lm", lm>>>> ELSE <<>>)]

\* ResumeSupport::prepare_resume_headers: HeaderMap::insert replaces, so a
\* stored last-modified overrides the etag as the If-Range validator.
PrepareResumeHeaders(downloaded, etag, lm) ==
    IF downloaded > 0
    THEN [range |-> downloaded,
          ifrange |-> IF lm # 0 THEN <<<<"lm", lm>>>>
                      ELSE IF etag # 0 THEN <<<<"etag", etag>>>> ELSE <<>>]
    ELSE [range |-> -1, ifrange |-> <<>>]

PartSize(p) == IF fs[p].part.ex THEN Len(fs[p].part.data) ELSE 0

\* ------------------------------------------------------ steps of a call
\* The call returns: its locals are dropped, its result is kept.
Return(r, result, status) ==
    [r EXCEPT !.pc = "done", !.res = result, !.status = status,
              !.etag = 0, !.lm = 0, !.downloaded = 0, !.stream = <<>>,
              !.req = IdleTask.req]

SetTask(t, r) == task' = [task EXCEPT ![t] = r]
SetFiles(p, f) == fs' = [fs EXCEPT ![p] = f]

\* Downloader::download up to the loop: the sidecar is read and decoded
\* (serde_json::from_str(..).unwrap() panics on a sidecar that does not decode).
\* Its part file and sidecar are named with_extension("part"), those of
\* pull_layer by get_part_paths, so a target's three files belong to the
\* calls of one of the two.
BeginDownload(t, mode, out) ==
    /\ task[t].pc \in {"idle", "done"}
    /\ task[t].kind \in {"none", "dl"}
    /\ calls < MaxCalls
    /\ calls' = calls + 1
    /\ events' = <<>>
    /\ LET m == fs[Target].meta
           r == [IdleTask EXCEPT !.kind = "dl", !.path = Target, !.mode = mode,
                                 !.out = out,
                                 !.pre = fs[Target], !.v0 = ver[Target]]
       IN  IF m.ex /\ ~m.ok
           THEN SetTask(t, Return(r, "Panic", 0))
           ELSE SetTask(t, [r EXCEPT !.pc = "send", !.etag = m.etag, !.lm = m.lm])
    /\ UNCHANGED <<fs, ver, counter, mgr, permits, completed, faults, others>>

\* A call whose output_path names a file.
StartDownload(t, mode) == BeginDownload(t, mode, "path")

\* OciClient::pull_layer up to the loop: read_metadata, then the size of the
\* part file is read once.
BeginPull(d, p, mode, cb) ==
    LET m == fs[p].meta
        r == [IdleTask EXCEPT !.kind = "pull", !.path = p, !.digest = d,
                              !.mode = mode, !.cb = cb, !.pre = fs[p],
                              !.v0 = ver[p]]
    IN  IF m.ex /\ ~m.ok
        THEN Return(r, "InvalidResponse", 0)
        ELSE [r EXCEPT !.pc = "send", !.etag = m.etag, !.lm = m.lm,
                       !.downloaded = PartSize(p)]

StartPull(t, mode) ==
    /\ task[t].pc \in {"idle", "done"}
    /\ task[t].kind \in {"none", "pull"}
    /\ calls < MaxCalls
    /\ calls' = calls + 1
    /\ events' = <<>>
    /\ SetTask(t, BeginPull(0, Target, mode, "plain"))
    /\ UNCHANGED <<fs, ver, counter, mgr, permits, completed, faults, others>>

\* The request of the current attempt.
Request(t) ==
    LET r == task[t]
    IN  IF r.kind = "dl"
        THEN DownloadHeaders(PartSize(r.path), r.etag, r.lm)
        ELSE PrepareResumeHeaders(r.downloaded, r.etag, r.lm)

\* The request is sent and a response arrives.
Send(t) ==
    /\ task[t].pc = "send"
    /\ LET r == task[t]
           p == r.path
           q == Request(t)
           d == IF r.kind = "dl" THEN PartSize(p) ELSE r.downloaded
           v == ver[p]
           A == IF r.digest = 0
                THEN Answers(Content(v), ETagOf(v), ModifiedOf(v), q.range)
                ELSE Answers(Blob(r.digest), 0, 0, q.range)
       IN  \E a \in A :
               /\ (MayFail(t) \/ IsSuccess(a.status))
               /\ faults' = IF t \in Layers /\ ~IsSuccess(a.status)
                             THEN faults + 1 ELSE faults
               /\ SetTask(t, [r EXCEPT !.pc = "resp", !.downloaded = d, !.req = q,
                                    !.resp = a, !.nreq = @ + 1,
                                    !.etag1 = IF r.nreq = 0 THEN a.etag ELSE @,
                                    !.honest = @ /\ a.how \in {"honour", "ignore"}])
    /\ UNCHANGED <<fs, ver, events, counter, calls, mgr, permits, completed, others>>

\* send() fails: NetworkError.
SendFails(t) ==
    /\ task[t].pc = "send"
    /\ MayFail(t)
    /\ faults' = IF t \in Layers THEN faults + 1 ELSE faults
    /\ SetTask(t, Return([task[t] EXCEPT !.nreq = @ + 1, !.resp = NoResponse],
                         "NetworkError", 0))
    /\ UNCHANGED <<fs, ver, events, counter, calls, mgr, permits, completed, others>>

\* The answers a prompt can give; it is asked by Downloader::download under
\* PromptOverwrite only.
PromptAnswers(t) ==
    IF task[t].kind = "dl" /\ task[t].mode = "Prompt" THEN BOOLEAN ELSE {TRUE}

\* Mutant: output "-" is treated as a file path.
IsStdout_Never(out) == FALSE

\* options.output_path.as_deref() == Some("-").
IsStdout(out) == out = "-"

\* The response is examined: restart, error, stdout, or the overwrite policy.
\* `yes` is the answer of the prompt.
Decide(t, yes) ==
    /\ task[t].pc = "resp"
    /\ LET r == task[t]
           p == r.path
           f == fs[p]
           a == r.resp
       IN  IF RestartWanted(r.kind, a.status, r.etag, r.lm, a.etag, a.lm)
              /\ RestartAllowed(r.attempt)
           THEN /\ SetFiles(p, [f EXCEPT !.part = NoFile])
                /\ SetTask(t, [r EXCEPT !.pc = "restart"])
           ELSE IF ~IsSuccess(a.status)
           THEN /\ SetTask(t, Return(r, "ResourceError", a.status))
                /\ UNCHANGED fs
           ELSE IF r.kind = "dl" /\ IsStdout(r.out)
           THEN /\ SetTask(t, [r EXCEPT !.pc = "stdout", !.stream = a.body])
                /\ UNCHANGED fs
           ELSE IF f.final.ex /\ ~f.part.ex
           THEN CASE r.mode = "Skip" ->
                        /\ SetTask(t, [Return(r, "Ok", 0) EXCEPT !.ret = "target"])
                        /\ UNCHANGED fs
                  [] r.mode = "Force" ->
                        /\ SetFiles(p, [f EXCEPT !.final = NoFile])
                        /\ SetTask(t, [r EXCEPT !.pc = "open"])
                  [] OTHER ->
                        IF r.kind = "dl"
                        THEN /\ SetTask(t, IF yes THEN [r EXCEPT !.pc = "open"]
                                           ELSE [Return(r, "Ok", 0) EXCEPT !.ret = "target"])
                             /\ UNCHANGED fs
                        ELSE /\ SetFiles(p, [f EXCEPT !.final = NoFile])
                             /\ SetTask(t, [r EXCEPT !.pc = "open"])
           ELSE /\ SetTask(t, [r EXCEPT !.pc = "open"])
                /\ UNCHANGED fs
    /\ UNCHANGED <<ver, events, counter, calls, mgr, permits, completed, faults, others>>

\* The restart: the sidecar is removed after the part file, the validators
\* of the response replace the stored ones.  pull_layer also resets
\* `downloaded`; Downloader::download reads the part size again.
Restart(t) ==
    /\ task[t].pc = "restart"
    /\ LET r == task[t]
           p == r.path
       IN  /\ SetFiles(p, [fs[p] EXCEPT !.meta = NoMeta])
           /\ SetTask(t, [r EXCEPT !.pc = "send", !.etag = r.resp.etag,
                                   !.lm = r.resp.lm, !.attempt = @ + 1,
                                   !.downloaded = IF r.kind = "dl" THEN @ ELSE 0])
    /\ UNCHANGED <<ver, events, counter, calls, mgr, permits, completed, faults, others>>

\* The part file is opened.  Downloader::download truncates on
\* should_truncate and then emits Preparing(total_size), keeping `downloaded`;
\* pull_layer first calls the callback with (downloaded, total_size), then
\* truncates on `should_truncate || downloaded == 0` and resets `downloaded`.
Open(t) ==
    /\ task[t].pc = "open"
    /\ LET r == task[t]
           p == r.path
           f == fs[p]
           a == r.resp
           opened == IF f.part.ex THEN f.part ELSE File(<<>>)
       IN  IF r.kind = "dl"
           THEN /\ SetFiles(p, [f EXCEPT !.part =
                        IF ShouldTruncate(a, r.downloaded) THEN File(<<>>) ELSE opened])
                /\ events' = Append(events, Preparing(TotalSize(a)))
                /\ SetTask(t, [r EXCEPT !.pc = "meta"])
                /\ UNCHANGED counter
           ELSE LET info == ExtractRangeInfo(a, r.downloaded)
                    cbk == Callback(r.cb, r.downloaded, info[2], events, counter)
                    trunc == info[1] \/ r.downloaded = 0
                IN  /\ events' = cbk[1]
                    /\ counter' = cbk[2]
                    /\ SetFiles(p, [f EXCEPT !.part =
                            IF trunc THEN File(<<>>) ELSE opened])
                    /\ SetTask(t, [r EXCEPT !.pc = "meta",
                                            !.downloaded = IF trunc THEN 0 ELSE @])
    /\ UNCHANGED <<ver, calls, mgr, permits, completed, faults, others>>

\* The sidecar is written with the validators of the response; the body
\* stream starts.
WriteMeta(t) ==
    /\ task[t].pc = "meta"
    /\ LET r == task[t]
           p == r.path
       IN  /\ SetFiles(p, [fs[p] EXCEPT !.meta = MetaOf(r.resp.etag, r.resp.lm)])
           /\ SetTask(t, [r EXCEPT !.pc = "stream", !.stream = r.resp.body,
                                   !.xfer = TRUE])
    /\ UNCHANGED <<ver, events, counter, calls, mgr, permits, completed, faults, others>>

\* The process is killed while fs::write is writing the sidecar: the file
\* was created, its JSON text is missing or cut short and does not decode.
WriteMetaKilled(t) ==
    /\ task[t].pc = "meta"
    /\ LET r == task[t]
           p == r.path
       IN  /\ SetFiles(p, [fs[p] EXCEPT !.meta = [MetaOf(0, 0) EXCEPT !.ok = FALSE]])
           /\ SetTask(t, Return(r, "Killed", 0))
    /\ UNCHANGED <<ver, events, counter, calls, mgr, permits, completed, faults, others>>

\* Mutant: Progress reports the length of the chunk.
CountChunk_Delta(downloaded, n) == <<n, downloaded + n>>

\* Downloader::download, one chunk of n bytes: <<the value reported by
\* Progress, `downloaded` after the chunk>>.
CountChunk(downloaded, n) == <<downloaded + n, downloaded + n + n>>

\* One chunk of n bytes arrives and is written to the part file.
Chunk(t, n) ==
    /\ task[t].pc = "stream"
    /\ n >= 1 /\ n <= Len(task[t].stream)
    /\ LET r == task[t]
           p == r.path
           f == fs[p]
           bytes == SubSeq(r.stream, 1, n)
           rest == SubSeq(r.stream, n + 1, Len(r.stream))
           r1 == [r EXCEPT !.stream = rest, !.streamed = @ \o bytes]
       IN  /\ SetFiles(p, IF f.part.ex
                          THEN [f EXCEPT !.part = File(f.part.data \o bytes)]
                          ELSE f)
           /\ IF r.kind = "dl"
              THEN /\ events' = Append(events, Progress(CountChunk(r.downloaded, n)[1]))
                   /\ SetTask(t, [r1 EXCEPT !.downloaded = CountChunk(r.downloaded, n)[2]])
                   /\ UNCHANGED counter
              ELSE LET cbk == Callback(r.cb, n, 0, events, counter)
                   IN  /\ events' = cbk[1]
                       /\ counter' = cbk[2]
                       /\ SetTask(t, [r1 EXCEPT !.downloaded = @ + n])
    /\ UNCHANGED <<ver, calls, mgr, permits, completed, faults, others>>

\* Reading the next chunk fails: NetworkError in Downloader::download,
\* ChunkError in pull_layer.
ChunkFails(t) ==
    /\ task[t].pc = "stream"
    /\ task[t].stream # <<>>
    /\ SetTask(t, Return(task[t],
                         IF task[t].kind = "dl" THEN "NetworkError" ELSE "ChunkError", 0))
    /\ MayFail(t)
    /\ faults' = IF t \in Layers THEN faults + 1 ELSE faults
    /\ UNCHANGED <<fs, ver, events, counter, calls, mgr, permits, completed, others>>

\* The stream has ended: the part file is renamed to the final path.
Rename(t) ==
    /\ task[t].pc = "stream"
    /\ task[t].stream = <<>>
    /\ LET r == task[t]
           p == r.path
           f == fs[p]
       IN  IF f.part.ex
           THEN /\ SetFiles(p, [f EXCEPT !.final = f.part, !.part = NoFile])
                /\ SetTask(t, [r EXCEPT !.pc = "unmeta"])
           ELSE /\ SetTask(t, Return(r, "IoError", 0))
                /\ UNCHANGED fs
    /\ UNCHANGED <<ver, events, counter, calls, mgr, permits, completed, faults, others>>

\* Mutant: the sidecar is left behind.
MetaAfterSuccess_Kept(m) == m

\* The sidecar of a finished transfer.
MetaAfterSuccess(m) == NoMeta

\* The sidecar is removed; Downloader::download emits Complete; Ok.
RemoveMeta(t) ==
    /\ task[t].pc = "unmeta"
    /\ LET r == task[t]
           p == r.path
       IN  /\ SetFiles(p, [fs[p] EXCEPT !.meta = MetaAfterSuccess(@)])
           /\ SetTask(t, [Return(r, "Ok", 0) EXCEPT !.ret = "target"])
           /\ events' = IF r.kind = "dl" THEN Append(events, Complete) ELSE events
    /\ UNCHANGED <<ver, counter, calls, mgr, permits, completed, faults, others>>

\* The host cancels the call at an await point.
Cancel(t) ==
    /\ task[t].pc \notin {"idle", "done"}
    /\ SetTask(t, Return(task[t], "Cancelled", 0))
    /\ UNCHANGED <<fs, ver, events, counter, calls, mgr, permits, completed, faults, others>>

\* The upstream resource of the single-file target changes between two calls.
ChangeUpstream ==
    /\ task[0].pc \in {"idle", "done"}
    /\ ver[Target] + 1 \in Versions
    /\ ver' = [ver EXCEPT ![Target] = @ + 1]
    /\ UNCHANGED <<fs, task, events, counter, calls, mgr, permits, completed, faults, others>>

FileModes == {"Skip", "Force", "Prompt"}

\* ------------------------------------------------ output to stdout ("-")
\* A call with output_path "-".
StartStdout(t, mode) == BeginDownload(t, mode, "-")

\* One chunk of n bytes is written to stdout.
StdoutChunk(t, n) ==
    /\ task[t].pc = "stdout"
    /\ n >= 1 /\ n <= Len(task[t].stream)
    /\ LET r == task[t]
       IN  SetTask(t, [r EXCEPT !.stream = SubSeq(r.stream, n + 1, Len(r.stream)),
                                !.streamed = @ \o SubSeq(r.stream, 1, n)])
    /\ UNCHANGED <<fs, ver, events, counter, calls, mgr, permits, completed, faults, others>>

\* Reading the next chunk fails: chunk.unwrap() panics.
StdoutFails(t) ==
    /\ task[t].pc = "stdout"
    /\ task[t].stream # <<>>
    /\ SetTask(t, Return(task[t], "Panic", 0))
    /\ UNCHANGED <<fs, ver, events, counter, calls, mgr, permits, completed, faults, others>>

\* The stream has ended: Ok("-").
StdoutEnd(t) ==
    /\ task[t].pc = "stdout"
    /\ task[t].stream = <<>>
    /\ SetTask(t, [Return(task[t], "Ok", 0) EXCEPT !.ret = "-"])
    /\ UNCHANGED <<fs, ver, events, counter, calls, mgr, permits, completed, faults, others>>

\* Calls with output "-" and calls with an output path "-.<ext>" on the same
\* URL: with_extension("part") gives both the part path "-.part", so the
\* part file and sidecar an interrupted download to the file leaves behind
\* are those a call with output "-" finds.
NextStdout ==
    \/ \E m \in FileModes : StartStdout(0, m)
    \/ StartDownload(0, "Force")
    \/ Send(0)
    \/ SendFails(0)
    \/ \E yes \in PromptAnswers(0) : Decide(0, yes)
    \/ Restart(0)
    \/ Open(0)
    \/ WriteMeta(0)
    \/ \E n \in 1..(MaxLen + 1) : Chunk(0, n)
    \/ ChunkFails(0)
    \/ Rename(0)
    \/ RemoveMeta(0)
    \/ \E n \in 1..(MaxLen + 1) : StdoutChunk(0, n)
    \/ StdoutFails(0)
    \/ StdoutEnd(0)
    \/ Cancel(0)
    \/ ChangeUpstream

SpecStdout == Init /\ [][NextStdout]_vars

Next ==
    \/ \E m \in FileModes : StartDownload(0, m)
    \/ \E m \in FileModes : StartPull(0, m)
    \/ Send(0)
    \/ SendFails(0)
    \/ \E yes \in PromptAnswers(0) : Decide(0, yes)
    \/ Restart(0)
    \/ Open(0)
    \/ WriteMeta(0)
    \/ WriteMetaKilled(0)
    \/ \E n \in 1..(MaxLen + 1) : Chunk(0, n)
    \/ ChunkFails(0)
    \/ Rename(0)
    \/ RemoveMeta(0)
    \/ Cancel(0)
    \/ ChangeUpstream

Spec == Init /\ [][Next]_vars

\* --------------------------------------- extract_archive: the end of a call
\* What archive::extract_archive can return for the downloaded file: Ok (an
\* archive that unpacks, or no archive format detected), or an error (a
\* damaged archive, an I/O error while unpacking or creating extract_dir).
ExtractOutcomes == {"Ok", "ExtractError"}

\* The events after `callback(DownloadState::Complete)`, which the code runs
\* before it looks at options.extract_archive.
CompleteEvents(evs) == Append(evs, Complete)

\* The events after the extraction returned: the callback is not called again.
ExtractEvents(evs, outcome) == evs

\* With extract_archive set: the sidecar is removed and Complete is emitted;
\* the extraction is still to come.
EmitComplete(t) ==
    /\ task[t].pc = "unmeta"
    /\ LET r == task[t]
           p == r.path
       IN  /\ SetFiles(p, [fs[p] EXCEPT !.meta = MetaAfterSuccess(@)])
           /\ SetTask(t, [r EXCEPT !.pc = "extract"])
           /\ events' = CompleteEvents(events)
    /\ UNCHANGED <<ver, counter, calls, mgr, permits, completed, faults, others>>

\* archive::extract_archive(..).await?: Ok(final_target), or its error.
ExtractArchive(t, outcome) ==
    /\ task[t].pc = "extract"
    /\ SetTask(t, IF outcome = "Ok"
                  THEN [Return(task[t], "Ok", 0) EXCEPT !.ret = "target"]
                  ELSE Return(task[t], outcome, 0))
    /\ events' = ExtractEvents(events, outcome)
    /\ UNCHANGED <<fs, ver, counter, calls, mgr, permits, completed, faults, others>>

\* Calls of Downloader::download with extract_archive set.
NextExtract ==
    \/ \E m \in FileModes : StartDownload(0, m)
    \/ Send(0)
    \/ SendFails(0)
    \/ \E yes \in PromptAnswers(0) : Decide(0, yes)
    \/ Restart(0)
    \/ Open(0)
    \/ WriteMeta(0)
    \/ \E n \in 1..(MaxLen + 1) : Chunk(0, n)
    \/ ChunkFails(0)
    \/ Rename(0)
    \/ EmitComplete(0)
    \/ \E o \in ExtractOutcomes : ExtractArchive(0, o)
    \/ ChangeUpstream

SpecExtract == Init /\ [][NextExtract]_vars
\* =================================================================
\* The OCI downloader: handle_oci_download, download_oci, download_blob
\* =================================================================
\* `if retries > 5`: the retry limit of handle_oci_download.
MaxRetries == 5

\* The digest of a blob reference (package@sha256:...).
BlobDigest == 1

\* options.concurrency.unwrap_or(1): the capacity of the semaphore.
Capacity(conc) == IF conc = -1 THEN 1 ELSE conc

\* The values of the concurrency option: None, Some(0), Some(2).
Concurrencies == {-1, 0, 2}
\* The runs of handle_oci_download have the option None or Some(0), those of
\* the library caller the value Some(n) with n > 0.
LibraryConcurrency == CHOOSE c \in Concurrencies : c > 0

\* The manifest: layer l has digest l, size Len(Blob(l)) and a title that
\* passes the filters.
LayerSize(l) == Len(Blob(l))
RECURSIVE SumSizes(_)
SumSizes(ls) ==
    IF ls = {} THEN 0
    ELSE LET l == CHOOSE x \in ls : TRUE IN LayerSize(l) + SumSizes(ls \ {l})

\* Mutant: every error is retried.
Retryable_Any(res, status) == res # "Ok"

\* The arms of the match in handle_oci_download that sleep and retry.
Retryable(res, status) ==
    \/ (res = "ResourceError" /\ status = TOO_MANY_REQUESTS)
    \/ res = "ChunkError"

\* Mutant: download_oci does not wait for the tasks it spawned.
InFlight_None == {}

\* The layer tasks that were spawned and have not finished.
InFlight == {l \in Layers : task[l].pc \notin {"idle", "finished"}}

InitOci ==
    /\ fs = [p \in Paths |-> NoFiles]
    /\ ver = [p \in Paths |-> 1]
    /\ task = [t \in Tasks |-> IdleTask]
    /\ events = <<>>
    /\ counter = 0
    /\ calls = 0
    /\ \/ \E c \in Concurrencies \ {LibraryConcurrency} :
              mgr = [IdleManager EXCEPT !.conc = c]
       \/ mgr = [IdleManager EXCEPT !.caller = "library",
                                    !.conc = LibraryConcurrency]
       \/ mgr = [IdleManager EXCEPT !.ref = "blob"]
    /\ permits = 0
    /\ completed = {}
    /\ faults = 0
    /\ OthersIdle

\* handle_oci_download, top of the loop: give up after MaxRetries retries,
\* else call download_oci, which delegates a blob reference to
\* download_blob (a pull_layer of the synthesized layer in the same task).
Invoke ==
    /\ mgr.pc = "check"
    /\ mgr.caller = "handle_oci_download"
    /\ IF mgr.retries > MaxRetries
       THEN /\ mgr' = [mgr EXCEPT !.pc = "done"]
            /\ UNCHANGED <<task, events, counter, faults>>
       ELSE IF mgr.ref = "blob"
       THEN /\ mgr' = [mgr EXCEPT !.pc = "blob", !.inv = @ + 1]
            /\ task' = [task EXCEPT ![0] =
                            BeginPull(BlobDigest, Target, mgr.mode, "blob")]
            /\ events' = <<>>
            /\ counter' = 0
       ELSE /\ mgr' = [mgr EXCEPT !.pc = "manifest", !.inv = @ + 1]
            /\ events' = <<>>
            /\ UNCHANGED <<task, counter, faults>>
    /\ UNCHANGED <<fs, ver, calls, permits, completed, faults, others>>

\* download_oci: the manifest arrives, the layers are filtered, Preparing
\* is emitted with the sum of their sizes, the semaphore and the byte counter
\* are created.
ManifestOk ==
    /\ mgr.pc = "manifest"
    /\ IF Layers = {}
       THEN /\ mgr' = [mgr EXCEPT !.pc = "ret", !.res = "LayersNotFound", !.status = 0]
            /\ UNCHANGED <<events, permits, counter, task, faults>>
       ELSE /\ mgr' = [mgr EXCEPT !.pc = "loop", !.idx = 1]
            /\ events' = Append(events, Preparing(SumSizes(Layers)))
            /\ permits' = Capacity(mgr.conc)
            /\ counter' = 0
            /\ task' = [t \in Tasks |-> IF t \in Layers THEN IdleTask ELSE task[t]]
    /\ UNCHANGED <<fs, ver, calls, completed, faults, others>>

\* download_oci: the manifest request fails (`?`).
ManifestFails(res, status) ==
    /\ mgr.pc = "manifest"
    /\ mgr' = [mgr EXCEPT !.pc = "ret", !.res = res, !.status = status]
    /\ UNCHANGED <<fs, ver, task, events, counter, calls, permits, completed, faults, others>>

\* Mutant: the layer loop does not look at completed_layers.
IsCompleted_Never(digest, done) == FALSE

\* self.completed_layers.lock().unwrap().contains(&layer.digest)
IsCompleted(digest, done) == digest \in done

\* The layer loop: a layer whose digest is in completed_layers is skipped.
SkipCompleted ==
    /\ mgr.pc = "loop"
    /\ mgr.idx \in Layers
    /\ IsCompleted(mgr.idx, completed)
    /\ mgr' = [mgr EXCEPT !.idx = @ + 1]
    /\ UNCHANGED <<fs, ver, task, events, counter, calls, permits, completed, faults, others>>

\* The layer loop: semaphore.acquire_owned().await.
Acquire ==
    /\ mgr.pc = "loop"
    /\ mgr.idx \in Layers
    /\ ~IsCompleted(mgr.idx, completed)
    /\ permits > 0
    /\ permits' = permits - 1
    /\ mgr' = [mgr EXCEPT !.pc = "spawn"]
    /\ UNCHANGED <<fs, ver, task, events, counter, calls, completed, faults, others>>

\* The permits once the layer's task is spawned: `drop(permit)` follows
\* task::spawn in the loop body, the task does not own the permit.
PermitsAfterSpawn(p) == p + 1

\* The permits once a layer's task has finished.
PermitsAfterTask(p) == p

\* file_path = base_path.join(filename), filename the title of the layer:
\* path l for the layers of a manifest whose titles differ, the path of the
\* first layer when they all carry the same title.
FilePath(ref, l) == IF ref = "twins" THEN 1 ELSE l

\* The layer loop: the task is spawned, the permit is dropped.
SpawnLayer ==
    /\ mgr.pc = "spawn"
    /\ LET l == mgr.idx
       IN  task' = [task EXCEPT ![l] =
                       BeginPull(l, FilePath(mgr.ref, l), mgr.mode, "layer")]
    /\ permits' = PermitsAfterSpawn(permits)
    /\ mgr' = [mgr EXCEPT !.pc = "loop", !.idx = @ + 1]
    /\ UNCHANGED <<fs, ver, events, counter, calls, completed, faults, others>>

\* A layer task after pull_layer returned: on Ok the digest is inserted in
\* completed_layers; on an error the task ends with that error.
TaskFinish(l) ==
    /\ l \in Layers
    /\ task[l].pc = "done"
    /\ task' = [task EXCEPT ![l] = [IdleTask EXCEPT
                    !.pc = "finished", !.kind = "pull", !.path = task[l].path,
                    !.digest = task[l].digest, !.res = task[l].res,
                    !.status = task[l].status, !.xfer = task[l].xfer]]
    /\ completed' = IF task[l].res = "Ok" THEN completed \cup {task[l].digest}
                    ELSE completed
    /\ permits' = PermitsAfterTask(permits)
    /\ UNCHANGED <<fs, ver, events, counter, calls, mgr, faults, others>>

\* The result of download_oci once join_all has returned the results of the
\* layer tasks: `let _ = join_all(tasks).await` discards them.
JoinResult(results) == [res |-> "Ok", status |-> 0]

\* download_oci: every spawned task has finished; Complete; return.
Join ==
    /\ mgr.pc = "loop"
    /\ mgr.idx \notin Layers
    /\ InFlight = {}
    /\ LET out == JoinResult({<<task[l].res, task[l].status>> :
                                  l \in {x \in Layers : task[x].pc = "finished"}})
       IN  /\ mgr' = [mgr EXCEPT !.pc = "ret", !.res = out.res, !.status = out.status]
           /\ events' = IF out.res = "Ok" THEN Append(events, Complete) ELSE events
    /\ UNCHANGED <<fs, ver, task, counter, calls, permits, completed, faults, others>>

\* download_blob: pull_layer returned; `?` propagates its error, else
\* Complete is emitted.
BlobReturn ==
    /\ mgr.pc = "blob"
    /\ task[0].pc = "done"
    /\ mgr' = [mgr EXCEPT !.pc = "ret", !.res = task[0].res, !.status = task[0].status]
    /\ events' = IF task[0].res = "Ok" THEN Append(events, Complete) ELSE events
    /\ UNCHANGED <<fs, ver, task, counter, calls, permits, completed, faults, others>>

\* handle_oci_download: the match on the result of download_oci.
Retry ==
    /\ mgr.pc = "ret"
    /\ mgr.caller = "handle_oci_download"
    /\ IF mgr.res # "Ok" /\ Retryable(mgr.res, mgr.status)
       THEN mgr' = [mgr EXCEPT !.pc = "check", !.retries = @ + 1]
       ELSE mgr' = [mgr EXCEPT !.pc = "done"]
    /\ UNCHANGED <<fs, ver, task, events, counter, calls, permits, completed, faults, others>>

\* A library caller calls download_oci on its OciDownloader (again).
Reinvoke ==
    /\ mgr.pc \in {"check", "ret"}
    /\ mgr.caller = "library"
    /\ calls < MaxCalls
    /\ calls' = calls + 1
    /\ mgr' = [mgr EXCEPT !.pc = "manifest", !.inv = @ + 1]
    /\ events' = <<>>
    /\ UNCHANGED <<fs, ver, task, counter, permits, completed, faults, others>>

NextOci ==
    \/ Invoke
    \/ Reinvoke
    \/ ManifestOk
    \/ \E st \in {404, TOO_MANY_REQUESTS} : ManifestFails("ResourceError", st)
    \/ ManifestFails("NetworkError", 0)
    \/ SkipCompleted
    \/ Acquire
    \/ SpawnLayer
    \/ Join
    \/ BlobReturn
    \/ Retry
    \/ \E t \in Tasks :
        \/ Send(t)
        \/ SendFails(t)
        \/ \E yes \in PromptAnswers(t) : Decide(t, yes)
        \/ Restart(t)
        \/ Open(t)
        \/ WriteMeta(t)
        \/ \E n \in 1..NLayers : Chunk(t, n)
        \/ ChunkFails(t)
        \/ Rename(t)
        \/ RemoveMeta(t)
        \/ TaskFinish(t)

SpecOci == InitOci /\ [][NextOci]_vars

\* The executor keeps polling download_oci and the tasks it spawned, the
\* manifest request and every request and chunk read of a layer pull end
\* with an answer or an error.
FairSpecOci == InitOci /\ [][NextOci]_vars /\ WF_vars(NextOci)

\* The manifests: every layer has a title, and the layers can carry the same
\* one.
Manifests == {"manifest", "twins"}

\* handle_oci_download on a manifest reference, for every manifest.
InitTitles ==
    /\ fs = [p \in Paths |-> NoFiles]
    /\ ver = [p \in Paths |-> 1]
    /\ task = [t \in Tasks |-> IdleTask]
    /\ events = <<>>
    /\ counter = 0
    /\ calls = 0
    /\ \E m \in Manifests, c \in Concurrencies :
          mgr = [IdleManager EXCEPT !.ref = m, !.conc = c]
    /\ permits = 0
    /\ completed = {}
    /\ faults = 0
    /\ OthersIdle

\* One download_oci call by handle_oci_download: completed_layers is empty,
\* so no layer is skipped.
NextTitles ==
    \/ Invoke
    \/ ManifestOk
    \/ Acquire
    \/ SpawnLayer
    \/ Join
    \/ Retry
    \/ \E t \in Layers :
        \/ Send(t)
        \/ SendFails(t)
        \/ \E yes \in PromptAnswers(t) : Decide(t, yes)
        \/ Restart(t)
        \/ Open(t)
        \/ WriteMeta(t)
        \/ \E n \in 1..NLayers : Chunk(t, n)
        \/ ChunkFails(t)
        \/ Rename(t)
        \/ RemoveMeta(t)
        \/ TaskFinish(t)

SpecTitles == InitTitles /\ [][NextTitles]_vars

\* handle_oci_download alone: a blob reference, whose download_oci is one
\* pull_layer in the caller's task, or a manifest reference whose manifest
\* request fails.
InitRetry ==
    /\ InitOci
    /\ mgr.caller = "handle_oci_download"
    /\ mgr.conc = -1

NextRetry ==
    \/ Invoke
    \/ \E st \in {404, TOO_MANY_REQUESTS} : ManifestFails("ResourceError", st)
    \/ ManifestFails("NetworkError", 0)
    \/ BlobReturn
    \/ Retry
    \/ Send(0)
    \/ SendFails(0)
    \/ \E yes \in PromptAnswers(0) : Decide(0, yes)
    \/ Restart(0)
    \/ Open(0)
    \/ WriteMeta(0)
    \/ \E n \in 1..2 : Chunk(0, n)
    \/ ChunkFails(0)
    \/ Rename(0)
    \/ RemoveMeta(0)

\* The executor keeps polling a task that can take a step, and every request
\* and every chunk read ends with an answer or an error.
FairSpecRetry == InitRetry /\ [][NextRetry]_vars /\ WF_vars(NextRetry)

\* =================================================================
\* The paths of Downloader::download
\* =================================================================
\* Nothing is being transferred.
TransferIdle ==
    /\ fs = [p \in Paths |-> NoFiles]
    /\ ver = [p \in Paths |-> 1]
    /\ task = [t \in Tasks |-> IdleTask]
    /\ events = <<>>
    /\ counter = 0
    /\ calls = 0
    /\ mgr = [IdleManager EXCEPT !.pc = "off"]
    /\ permits = 0
    /\ completed = {}
    /\ faults = 0

\* The file names met: that of the URL, that of the Content-Disposition
\* header, that of an explicit output path, and the hash of the URL.
FileNames == {<<"u", "tar", "gz">>, <<"u">>, <<"n", "zip">>, <<"f", "bin">>}
HashFallback == <<"blake3">>
Stdout == <<<<"-">>>>

\* options.output_path: None (<<>>), "-", a directory written with a trailing
\* '/', or a path that is or is not an existing directory.
OutputPaths == {<<>>, Stdout, <<<<"d">>>>, <<<<"d">>, <<"f", "bin">>>>, <<<<"f", "bin">>>>}

\* dir.join(name).
Join2(dir, name) == Append(dir, name)

\* Path::with_extension: the piece after the last dot of the file name is
\* replaced, or the extension is appended to a name without a dot.
WithExtension(path, ext) ==
    LET name == path[Len(path)]
        stem == IF Len(name) > 1 THEN SubSeq(name, 1, Len(name) - 1) ELSE name
    IN  [path EXCEPT ![Len(path)] = stem \o ext]

\* ResumeSupport::get_part_paths: ".part" and ".part.meta" are appended to the
\* displayed path, so every piece of the file name is kept.
GetPartPaths(path) ==
    [part |-> [path EXCEPT ![Len(path)] = @ \o <<"part">>],
     meta |-> [path EXCEPT ![Len(path)] = @ \o <<"part", "meta">>]]

\* (provisional_path, final_dir) of the options.
ProvisionalPath(out, slash, isdir, urlname) ==
    LET base == IF urlname # <<>> THEN urlname ELSE HashFallback
    IN  IF out # <<>>
        THEN IF slash \/ isdir
             THEN [path |-> Join2(out, base), dir |-> out]
             ELSE [path |-> out, dir |-> <<>>]
        ELSE [path |-> <<base>>, dir |-> <<>>]

\* final_target: a file name in Content-Disposition replaces the provisional
\* path, inside final_dir when there is one.
FinalTarget(provisional, final_dir, out, hdrname) ==
    IF hdrname # <<>>
    THEN IF final_dir # <<>> THEN Join2(final_dir, hdrname) ELSE <<hdrname>>
    ELSE provisional

InitPath ==
    /\ TransferIdle
    /\ exe = NoExecute
    /\ http = InitialClient
    /\ rel = NoFetch
    /\ PureIdle
    /\ \E o \in OutputPaths, sl \in BOOLEAN, d \in BOOLEAN,
          u \in {<<>>} \cup FileNames, h \in {<<>>} \cup FileNames :
          /\ sl => (o # <<>> /\ o # Stdout /\ d)
          /\ d => (o # <<>> /\ o # Stdout)
          /\ pth = [NoPaths EXCEPT !.pc = "options", !.out = o, !.slash = sl,
                                   !.isdir = d, !.urlname = u, !.hdrname = h]

\* The output path is resolved.
ResolveOutput ==
    /\ pth.pc = "options"
    /\ LET pp == ProvisionalPath(pth.out, pth.slash, pth.isdir, pth.urlname)
       IN  pth' = [pth EXCEPT !.pc = "resolved", !.provisional = pp.path,
                              !.final_dir = pp.dir]
    /\ UNCHANGED <<transfer, exe, http, rel, sel, pat, purl>>

\* The part file and the sidecar are named.
PartPaths ==
    /\ pth.pc = "resolved"
    /\ pth' = [pth EXCEPT !.pc = "named",
                          !.part = WithExtension(pth.provisional, <<"part">>),
                          !.meta = WithExtension(pth.provisional, <<"part", "meta">>)]
    /\ UNCHANGED <<transfer, exe, http, rel, sel, pat, purl>>

\* A successful response arrives: output "-" is streamed to stdout and
\* returned; else the final target is chosen.
ApplyDisposition ==
    /\ pth.pc = "named"
    /\ IF pth.out = Stdout
       THEN pth' = [pth EXCEPT !.pc = "done", !.returned = Stdout]
       ELSE pth' = [pth EXCEPT !.pc = "target",
                       !.target = FinalTarget(pth.provisional, pth.final_dir,
                                              pth.out, pth.hdrname)]
    /\ UNCHANGED <<transfer, exe, http, rel, sel, pat, purl>>

\* The body went to the part file, which is renamed to the final target; the
\* target is returned.
Finish ==
    /\ pth.pc = "target"
    /\ pth' = [pth EXCEPT !.pc = "done", !.written = pth.target,
                          !.returned = pth.target]
    /\ UNCHANGED <<transfer, exe, http, rel, sel, pat, purl>>

NextPath ==
    \/ ResolveOutput
    \/ PartPaths
    \/ ApplyDisposition
    \/ Finish

SpecPath == InitPath /\ [][NextPath]_vars

\* =================================================================
\* DownloadManager::execute
\* =================================================================
\* The groups of inputs in the order execute handles them, and the inputs
\* of a group: each group has MaxCalls inputs.
Groups == <<"github", "oci", "gitlab", "direct">>
Inputs(g) == 1..MaxCalls
AllInputs == {<<g, i>> : g \in 1..Len(Groups), i \in 1..MaxCalls}

\* execute is called.  args.output is a file path or "-", the file mode
\* comes from --skip-existing and --force-overwrite.
InitExecute ==
    /\ InitTransfer
    /\ pth = NoPaths
    /\ http = InitialClient
    /\ rel = NoFetch
    /\ PureIdle
    /\ \E o \in {"path", "-"}, m \in FileModes :
          exe = [NoExecute EXCEPT !.pc = "run", !.output = o, !.mode = m]

\* handle_github_downloads / handle_gitlab_downloads, one project:
\* handle_platform_download returns Ok or Err, which is logged.
PlatformInput ==
    /\ exe.pc = "run"
    /\ Groups[exe.group] \in {"github", "gitlab"}
    /\ exe.idx \in Inputs(exe.group)
    /\ \E ok \in BOOLEAN :
          exe' = [exe EXCEPT !.processed = @ \cup {<<exe.group, exe.idx>>},
                             !.failed = @ \/ ~ok, !.idx = @ + 1]
    /\ UNCHANGED <<transfer, pth, http, rel, sel, pat, purl>>

\* handle_oci_downloads, one reference: handle_oci_download logs the error
\* of download_oci and returns Ok(()), so `?` never leaves the loop.
OciInput ==
    /\ exe.pc = "run"
    /\ Groups[exe.group] = "oci"
    /\ exe.idx \in Inputs(exe.group)
    /\ \E ok \in BOOLEAN :
          exe' = [exe EXCEPT !.processed = @ \cup {<<exe.group, exe.idx>>},
                             !.failed = @ \/ ~ok, !.idx = @ + 1]
    /\ UNCHANGED <<transfer, pth, http, rel, sel, pat, purl>>

\* handle_direct_downloads, one link: Downloader::download is called.
DirectStart ==
    /\ exe.pc = "run"
    /\ Groups[exe.group] = "direct"
    /\ exe.idx \in Inputs(exe.group)
    /\ calls = exe.idx - 1
    /\ BeginDownload(0, exe.mode, exe.output)

\* Downloader::download has ended: an Err is logged and the loop goes on;
\* a panic unwinds through execute and main, and the process ends.
DirectDone ==
    /\ exe.pc = "run"
    /\ Groups[exe.group] = "direct"
    /\ calls = exe.idx
    /\ task[0].pc = "done"
    /\ exe' = [exe EXCEPT !.processed = @ \cup {<<exe.group, exe.idx>>},
                          !.failed = @ \/ task[0].res # "Ok",
                          !.idx = @ + 1,
                          !.pc = IF task[0].res = "Panic" THEN "panicked" ELSE @]
    /\ UNCHANGED <<transfer, pth, http, rel, sel, pat, purl>>

\* The list of a group is exhausted: the next handle_*_downloads is called,
\* or execute returns.
NextGroup ==
    /\ exe.pc = "run"
    /\ exe.idx \notin Inputs(exe.group)
    /\ exe' = IF exe.group < Len(Groups)
              THEN [exe EXCEPT !.group = @ + 1, !.idx = 1]
              ELSE [exe EXCEPT !.pc = "end"]
    /\ UNCHANGED <<transfer, pth, http, rel, sel, pat, purl>>

NextExecute ==
    \/ PlatformInput
    \/ OciInput
    \/ DirectStart
    \/ DirectDone
    \/ NextGroup
    \/ Send(0)
    \/ SendFails(0)
    \/ \E yes \in PromptAnswers(0) : Decide(0, yes)
    \/ Restart(0)
    \/ Open(0)
    \/ WriteMeta(0)
    \/ \E n \in 1..(MaxLen + 1) : Chunk(0, n)
    \/ ChunkFails(0)
    \/ Rename(0)
    \/ RemoveMeta(0)
    \/ \E n \in 1..(MaxLen + 1) : StdoutChunk(0, n)
    \/ StdoutFails(0)
    \/ StdoutEnd(0)

SpecExecute == InitExecute /\ [][NextExecute]_vars

\* =================================================================
\* The shared HTTP client: configure_http_client and its readers
\* =================================================================
\* The configs an updater can produce: a user agent, and no proxy, a proxy
\* URL that parses, or one that does not.
Configs ==
    [user_agent : {"pkgforge/soar", "custom"}, proxy : {"none", "url", "invalid"}]

\* ClientConfig::build succeeds unless reqwest::Proxy::all rejects the URL.
Builds(config) == config.proxy # "invalid"

\* Mutant: a reader does not wait for the writer.
CanRead_Always(w) == TRUE

\* RwLock::read is granted while no writer holds the lock.
CanRead(w) == w = "none"

SetThread(t, r) == [http EXCEPT !.thr[t] = r]

\* SHARED_CLIENT_STATE.write(), then state.config.clone().
WriteLock(t) ==
    /\ t \in Writers
    /\ http.thr[t].pc = "idle"
    /\ http.w = "none" /\ http.r = {}
    /\ http' = [http EXCEPT !.w = t,
                  !.thr[t] = [IdleThread EXCEPT !.pc = "locked",
                                  !.new_config = http.config,
                                  !.old = <<http.client, http.config>>]]
    /\ UNCHANGED <<transfer, pth, exe, rel, sel, pat, purl>>

\* updater(&mut new_config).
Update(t) ==
    /\ t \in Writers
    /\ http.thr[t].pc = "locked"
    /\ \E c \in Configs :
          http' = SetThread(t, [http.thr[t] EXCEPT !.pc = "updated", !.new_config = c])
    /\ UNCHANGED <<transfer, pth, exe, rel, sel, pat, purl>>

\* new_config.build()?: on an error the function returns it and the guard
\* is dropped.
Build(t) ==
    /\ t \in Writers
    /\ http.thr[t].pc = "updated"
    /\ LET r == http.thr[t]
       IN  IF Builds(r.new_config)
           THEN http' = SetThread(t, [r EXCEPT !.pc = "built",
                                      !.new_client = ClientOf(r.new_config)])
           ELSE http' = [http EXCEPT !.w = "none",
                            !.thr[t] = [r EXCEPT !.pc = "idle", !.res = "Err"]]
    /\ UNCHANGED <<transfer, pth, exe, rel, sel, pat, purl>>

\* state.client = new_client.
SetClient(t) ==
    /\ t \in Writers
    /\ http.thr[t].pc = "built"
    /\ http' = [http EXCEPT !.client = http.thr[t].new_client,
                            !.thr[t].pc = "client_set"]
    /\ UNCHANGED <<transfer, pth, exe, rel, sel, pat, purl>>

\* state.config = new_config.
SetConfig(t) ==
    /\ t \in Writers
    /\ http.thr[t].pc = "client_set"
    /\ http' = [http EXCEPT !.config = http.thr[t].new_config,
                            !.thr[t].pc = "config_set"]
    /\ UNCHANGED <<transfer, pth, exe, rel, sel, pat, purl>>

\* Ok(()): the guard is dropped.
WriteUnlock(t) ==
    /\ t \in Writers
    /\ http.thr[t].pc = "config_set"
    /\ http' = [http EXCEPT !.w = "none", !.thr[t].pc = "idle", !.thr[t].res = "Ok"]
    /\ UNCHANGED <<transfer, pth, exe, rel, sel, pat, purl>>

\* SHARED_CLIENT_STATE.read().
ReadLock(t) ==
    /\ t \in Readers
    /\ http.thr[t].pc = "idle"
    /\ CanRead(http.w)
    /\ http' = [http EXCEPT !.r = @ \cup {t}, !.thr[t].pc = "reading"]
    /\ UNCHANGED <<transfer, pth, exe, rel, sel, pat, purl>>

\* The reader looks at the client and the config behind the guard.
Observe(t) ==
    /\ t \in Readers
    /\ http.thr[t].pc = "reading"
    /\ http' = [http EXCEPT !.thr[t].pc = "read",
                            !.thr[t].seen = <<http.client, http.config>>]
    /\ UNCHANGED <<transfer, pth, exe, rel, sel, pat, purl>>

\* The read guard is dropped.
ReadUnlock(t) ==
    /\ t \in Readers
    /\ http.thr[t].pc = "read"
    /\ http' = [http EXCEPT !.r = @ \ {t}, !.thr[t].pc = "idle"]
    /\ UNCHANGED <<transfer, pth, exe, rel, sel, pat, purl>>

\* The value of SHARED_CLIENT after a dereference: its initializer runs once,
\* cloning the client SHARED_CLIENT_STATE holds at that moment, and every
\* later dereference returns that same clone.
Deref(shared, client) == IF shared = <<>> THEN <<client>> ELSE shared

\* Downloader::default() and its first request: `client: &SHARED_CLIENT`.
\* The initializer takes the read lock, so a first dereference waits for a
\* writer.
DefaultDownloader ==
    /\ http.used = <<>>
    /\ http.shared # <<>> \/ CanRead(http.w)
    /\ http' = [http EXCEPT !.shared = Deref(http.shared, http.client),
                            !.used = Deref(http.shared, http.client)]
    /\ UNCHANGED <<transfer, pth, exe, rel, sel, pat, purl>>

\* The Downloader is dropped.
DropDownloader ==
    /\ http.used # <<>>
    /\ http' = [http EXCEPT !.used = <<>>]
    /\ UNCHANGED <<transfer, pth, exe, rel, sel, pat, purl>>

InitHttp ==
    /\ TransferIdle
    /\ pth = NoPaths
    /\ exe = NoExecute
    /\ http = InitialClient
    /\ rel = NoFetch
    /\ PureIdle

NextHttp ==
    \E t \in Writers \cup Readers :
        \/ WriteLock(t)
        \/ Update(t)
        \/ Build(t)
        \/ SetClient(t)
        \/ SetConfig(t)
        \/ WriteUnlock(t)
        \/ ReadLock(t)
        \/ Observe(t)
        \/ ReadUnlock(t)

SpecHttp == InitHttp /\ [][NextHttp]_vars

\* Calls of configure_http_client and Downloaders made by
\* Downloader::default(), in any order.
NextShared ==
    \/ \E t \in Writers :
        \/ WriteLock(t)
        \/ Update(t)
        \/ Build(t)
        \/ SetClient(t)
        \/ SetConfig(t)
        \/ WriteUnlock(t)
    \/ DefaultDownloader
    \/ DropDownloader

SpecShared == InitHttp /\ [][NextShared]_vars

\* =================================================================
\* Release platform handler: fetch_releases
\* =================================================================
\* The statuses an API answers with, and what a call can come to: a response
\* with a status, or a transport error.
Statuses == {200, 204, 301, 304, 400, 401, 403, 404, 429, 500, 503}
Outcomes ==
    [kind : {"response"}, status : Statuses] \cup {[kind |-> "error", status |-> 0]}

\* What the body of a response decodes to.
Bodies == {"array", "object", "scalar", "not json", "other array", "other object"}

\* StatusCode::is_server_error.
IsServerError(status) == status \in 500..599

\* Mutant: a mirror that does not know the project also falls back.
ShouldFallback_NotFound(status) ==
    status \in {429, 401, 403, 404} \/ IsServerError(status)

ShouldFallback(status) ==
    \/ status = 429
    \/ status = 401
    \/ status = 403
    \/ IsServerError(status)

\* Mutant: the Authorization header goes to whichever API is called.
ApiCall_AnyApi(api, outcome) ==
    [api |-> api, auth |-> rel.token, outcome |-> outcome]

\* call_api: the request it sends, with the Authorization header only for
\* the primary API and only when the token variable is set.
ApiCall(api, outcome) ==
    [api |-> api, auth |-> (api = "Primary" /\ rel.token), outcome |-> outcome]

\* fetch_releases is called; the project either has a valid path or not,
\* and the token variable is set or not.
InitReleases ==
    /\ TransferIdle
    /\ pth = NoPaths
    /\ exe = NoExecute
    /\ http = InitialClient
    /\ PureIdle
    /\ \E valid \in BOOLEAN, token \in BOOLEAN :
          rel = [NoFetch EXCEPT !.pc = "PkgForge", !.valid = valid, !.token = token]

\* self.call_api(&ApiType::PkgForge, ..) and the match on its result.
CallMirror ==
    /\ rel.pc = "PkgForge"
    /\ IF ~rel.valid
       THEN rel' = [rel EXCEPT !.pc = "done", !.res = "InvalidInput"]
       ELSE \E o \in Outcomes :
              LET called == [rel EXCEPT !.calls = Append(@, ApiCall("PkgForge", o))]
              IN  IF o.kind = "error"
                  THEN rel' = [called EXCEPT !.pc = "done", !.res = "NetworkError"]
                  ELSE IF ShouldFallback(o.status)
                       THEN rel' = [called EXCEPT !.pc = "Primary"]
                       ELSE rel' = [called EXCEPT !.pc = "status", !.status = o.status]
    /\ UNCHANGED <<transfer, pth, exe, http, sel, pat, purl>>

\* self.call_api(&ApiType::Primary, ..).await?
CallPrimary ==
    /\ rel.pc = "Primary"
    /\ \E o \in Outcomes :
          LET called == [rel EXCEPT !.calls = Append(@, ApiCall("Primary", o))]
          IN  IF o.kind = "error"
              THEN rel' = [called EXCEPT !.pc = "done", !.res = "NetworkError"]
              ELSE rel' = [called EXCEPT !.pc = "status", !.status = o.status]
    /\ UNCHANGED <<transfer, pth, exe, http, sel, pat, purl>>

\* if !response.status().is_success() { return Err(ResourceError) }
CheckStatus ==
    /\ rel.pc = "status"
    /\ IF IsSuccess(rel.status)
       THEN rel' = [rel EXCEPT !.pc = "json"]
       ELSE rel' = [rel EXCEPT !.pc = "done", !.res = "ResourceError"]
    /\ UNCHANGED <<transfer, pth, exe, http, sel, pat, purl>>

\* response.json() and serde_json::from_value: an array or an object of
\* releases gives the list, anything else InvalidResponse.
DecodeReleases ==
    /\ rel.pc = "json"
    /\ \E body \in Bodies :
          rel' = [rel EXCEPT !.pc = "done",
                             !.res = IF body \in {"array", "object"}
                                     THEN "Ok" ELSE "InvalidResponse"]
    /\ UNCHANGED <<transfer, pth, exe, http, sel, pat, purl>>

NextReleases ==
    \/ CallMirror
    \/ CallPrimary
    \/ CheckStatus
    \/ DecodeReleases

SpecReleases == InitReleases /\ [][NextReleases]_vars

\* =================================================================
\* Strings and the pattern matcher: matches_pattern
\* =================================================================
\* A string is the sequence of its characters.
\* char::to_lowercase, str::to_lowercase.
Lower(c) ==
    IF c = "A" THEN "a" ELSE IF c = "B" THEN "b" ELSE IF c = "G" THEN "g" ELSE c
ToLowercase(s) == [i \in 1..Len(s) |-> Lower(s[i])]

\* str::starts_with and str::contains.
StartsWith(s, prefix) ==
    Len(prefix) <= Len(s) /\ SubSeq(s, 1, Len(prefix)) = prefix
Contains(s, part) ==
    \E i \in 0..(Len(s) - Len(part)) : SubSeq(s, i + 1, i + Len(part)) = part

\* str::trim: white space is removed from both ends.
RECURSIVE TrimStart(_)
TrimStart(s) == IF s # <<>> /\ s[1] = " " THEN TrimStart(Tail(s)) ELSE s
RECURSIVE TrimEnd(_)
TrimEnd(s) ==
    IF s # <<>> /\ s[Len(s)] = " " THEN TrimEnd(SubSeq(s, 1, Len(s) - 1)) ELSE s
Trim(s) == TrimEnd(TrimStart(s))

\* str::split(sep): the pieces between the separators, empty ones included.
RECURSIVE Split(_, _)
Split(s, sep) ==
    IF \A i \in 1..Len(s) : s[i] # sep THEN <<s>>
    ELSE LET i == CHOOSE k \in 1..Len(s) :
                      s[k] = sep /\ \A j \in 1..(k - 1) : s[j] # sep
         IN  <<SubSeq(s, 1, i - 1)>> \o Split(SubSeq(s, i + 1, Len(s)), sep)

\* Mutant: the empty parts of a keyword are kept.
Parts_KeepEmpty(keyword) ==
    LET pieces == Split(keyword, ",")
    IN  [i \in 1..Len(pieces) |-> Trim(pieces[i])]

\* keyword.split(',').map(str::trim).filter(|s| !s.is_empty())
NonEmpty(s) == s # <<>>
Parts(keyword) == SelectSeq(Parts_KeepEmpty(keyword), NonEmpty)

\* asset_name.contains(&part), both lowercased unless exact_case.
ContainsPart(name, part, exact_case) ==
    IF exact_case THEN Contains(name, part)
    ELSE Contains(ToLowercase(name), ToLowercase(part))

\* Regex::is_match for the regexes of the model: a literal, searched for
\* anywhere in the name or (with ^) at its start.
RegexIsMatch(regex, name) ==
    IF regex.anchored THEN StartsWith(name, regex.lit) ELSE Contains(name, regex.lit)

\* fast_glob::glob_match: the whole name matches the glob, where * stands
\* for any run of characters.
RECURSIVE GlobMatch(_, _)
GlobMatch(glob, name) ==
    IF glob = <<>> THEN name = <<>>
    ELSE IF glob[1] = "*"
         THEN GlobMatch(Tail(glob), name)
              \/ (name # <<>> /\ GlobMatch(glob, Tail(name)))
         ELSE name # <<>> /\ name[1] = glob[1] /\ GlobMatch(Tail(glob), Tail(name))

\* Mutant: a name passes the exclusions when some exclusion keyword has no
\* part in it.
NoKeyword_Some(name, keywords, exact_case) ==
    \E k \in 1..Len(keywords) :
        \A i \in 1..Len(Parts(keywords[k])) :
            ~ContainsPart(name, Parts(keywords[k])[i], exact_case)

\* match_keywords.iter().all(.. .all(contains)) and
\* exclude_keywords.iter().all(.. .all(!contains)).
AllKeywords(name, keywords, exact_case) ==
    \A k \in 1..Len(keywords) :
        \A i \in 1..Len(Parts(keywords[k])) :
            ContainsPart(name, Parts(keywords[k])[i], exact_case)
NoKeyword(name, keywords, exact_case) ==
    \A k \in 1..Len(keywords) :
        \A i \in 1..Len(Parts(keywords[k])) :
            ~ContainsPart(name, Parts(keywords[k])[i], exact_case)

MatchesPattern(name, regexes, globs, match_keywords, exclude_keywords, exact_case) ==
    /\ \A i \in 1..Len(regexes) : RegexIsMatch(regexes[i], name)
    /\ \A i \in 1..Len(globs) : GlobMatch(globs[i], name)
    /\ AllKeywords(name, match_keywords, exact_case)
    /\ NoKeyword(name, exclude_keywords, exact_case)

\* The longest list of regexes, globs or keywords a call is given.
MaxPatterns == 1
SeqsUpTo(S, n) == UNION {[1..k -> S] : k \in 0..n}

\* The asset names, regexes, globs and keywords of the calls.
AssetNames == {<<"a", "b">>, <<"a", "B">>, <<"a", " ", "b">>, <<"c">>}
Regexes == {[anchored |-> TRUE, lit |-> <<"a">>], [anchored |-> FALSE, lit |-> <<"b">>]}
Globs == {<<"a", "*">>, <<"*", "b">>}
Keywords == {<<"a", ",", "B">>, <<" ", "b">>, <<",", " ">>, <<"c", ",">>}

\* matches_pattern is called.
InitPattern ==
    /\ TransferIdle
    /\ pth = NoPaths
    /\ exe = NoExecute
    /\ http = InitialClient
    /\ rel = NoFetch
    /\ sel = NoSelect
    /\ purl = NoParse
    /\ \E name \in AssetNames, regexes \in SeqsUpTo(Regexes, MaxPatterns),
          globs \in SeqsUpTo(Globs, MaxPatterns),
          match_keywords \in SeqsUpTo(Keywords, MaxPatterns),
          exclude_keywords \in SeqsUpTo(Keywords, MaxPatterns),
          exact_case \in BOOLEAN :
          pat = [pc |-> "call", name |-> name, regexes |-> regexes, globs |-> globs,
                 match_keywords |-> match_keywords,
                 exclude_keywords |-> exclude_keywords,
                 exact_case |-> exact_case, accepted |-> FALSE]

\* The call returns.
Match ==
    /\ pat.pc = "call"
    /\ pat' = [pat EXCEPT !.pc = "done",
                  !.accepted = MatchesPattern(pat.name, pat.regexes, pat.globs,
                                              pat.match_keywords,
                                              pat.exclude_keywords, pat.exact_case)]
    /\ UNCHANGED <<transfer, pth, exe, http, rel, sel, purl>>

NextPattern == Match

SpecPattern == InitPattern /\ [][NextPattern]_vars

\* =================================================================
\* Release platform handler: filter_releases
\* =================================================================
\* The longest list of releases an API answers with.
MaxReleases == 2

\* The two filter_releases of the repository: platform.rs and common.rs.
CodePaths == {"platform.rs", "common.rs"}

\* The releases of the model: a tag name, the prerelease flag and the names
\* of the assets.
TagNames == {<<"v", "1">>, <<"v", "1", "0">>, <<"v", "2">>}
AssetLists == {<<>>, <<<<"a", "b">>, <<"c">>>>}
Releases == [tag_name : TagNames, prerelease : BOOLEAN, assets : AssetLists]

\* options.tag: None or Some(tag).
SomeTag(v) == [some |-> TRUE, v |-> v]
Tags == {NoneTag} \cup {SomeTag(v) : v \in {<<"v", "1">>, <<"v", "1", "0">>, <<"v", "3">>}}

\* Iterator::find: the position of the first element of the list in the
\* set, 0 for None.
FindFirst(n, found) ==
    IF \E i \in 1..n : i \in found
    THEN CHOOSE i \in 1..n : i \in found /\ \A j \in 1..(i - 1) : j \notin found
    ELSE 0

\* The closure of find when a tag is given: release.tag_name() == tag_name
\* in platform.rs, release.tag_name().starts_with(tag_name) in common.rs.
TagMatches(path, tag_name, tag) ==
    IF path = "common.rs" THEN StartsWith(tag_name, tag) ELSE tag_name = tag

\* `let release = if let Some(ref tag_name) = options.tag { .. } else { .. }`:
\* the position of the release, 0 for None.
SelectRelease(path, releases, tag) ==
    IF tag.some
    THEN FindFirst(Len(releases),
                   {i \in 1..Len(releases) : TagMatches(path, releases[i].tag_name, tag.v)})
    ELSE LET stable == FindFirst(Len(releases),
                                 {i \in 1..Len(releases) : ~releases[i].prerelease})
         IN  IF stable # 0 THEN stable
             ELSE IF releases # <<>> THEN 1 ELSE 0

\* release.assets().into_iter().filter(matches_pattern(..)).collect(), with
\* the match keywords of the options.
FilterAssets(assets, match_keywords) ==
    LET Passes(name) == MatchesPattern(name, <<>>, <<>>, match_keywords, <<>>, FALSE)
    IN  SelectSeq(assets, Passes)

\* filter_releases is called.
InitSelect ==
    /\ TransferIdle
    /\ pth = NoPaths
    /\ exe = NoExecute
    /\ http = InitialClient
    /\ rel = NoFetch
    /\ pat = NoMatch
    /\ purl = NoParse
    /\ \E path \in CodePaths, releases \in SeqsUpTo(Releases, MaxReleases),
          tag \in Tags, match_keywords \in {<<>>, <<<<"c", ",">>>>} :
          sel = [NoSelect EXCEPT !.pc = "call", !.path = path,
                     !.releases = releases, !.tag = tag,
                     !.match_keywords = match_keywords]

\* The call returns.
FilterReleases ==
    /\ sel.pc = "call"
    /\ LET i == SelectRelease(sel.path, sel.releases, sel.tag)
       IN  IF i = 0
           THEN sel' = [sel EXCEPT !.pc = "done",
                            !.res = [kind |-> "NoRelease", tag |-> sel.tag]]
           ELSE LET assets == FilterAssets(sel.releases[i].assets, sel.match_keywords)
                IN  IF assets = <<>>
                    THEN sel' = [sel EXCEPT !.pc = "done", !.release = i,
                                     !.res = [kind |-> "NoMatchingAssets",
                                              available_assets |-> sel.releases[i].assets]]
                    ELSE sel' = [sel EXCEPT !.pc = "done", !.release = i,
                                     !.res = [kind |-> "Ok", assets |-> assets]]
    /\ UNCHANGED <<transfer, pth, exe, http, rel, pat, purl>>

NextSelect == FilterReleases

SpecSelect == InitSelect /\ [][NextSelect]_vars

\* =================================================================
\* The URL classifier: PlatformUrl::parse and decode_uri
\* =================================================================
\* An Option<&str>: a capture group that took part in the match or not.
NoGroup == [some |-> FALSE, v |-> <<>>]
Group(v) == [some |-> TRUE, v |-> v]

IsSpace(c) == c = " "
IsHex(c) ==
    c \in {"0", "1", "2", "3", "4", "5", "6", "7", "8", "9",
           "a", "b", "c", "d", "e", "f", "A", "B", "C", "D", "E", "F"}
DropFirst(s, n) == SubSeq(s, n + 1, Len(s))

\* The position of the first c in s, 0 when there is none.
IndexOf(s, c) ==
    IF \E i \in 1..Len(s) : s[i] = c
    THEN CHOOSE i \in 1..Len(s) : s[i] = c /\ \A j \in 1..(i - 1) : s[j] # c
    ELSE 0

\* ^(?i)(?:https?://)?: what is left of the URL after the optional scheme,
\* letters compared without case.
AfterScheme(url) ==
    LET low == ToLowercase(url)
    IN  IF StartsWith(low, <<"h", "t", "t", "p", "s", ":", "/", "/">>) THEN DropFirst(url, 8)
        ELSE IF StartsWith(low, <<"h", "t", "t", "p", ":", "/", "/">>) THEN DropFirst(url, 7)
        ELSE url

\* (?:github(?:\.com)?[:/]) and (?:gitlab(?:\.com)?[:/]): what follows the
\* host when the text starts with it, as a group; NoGroup when it does not.
AfterHost(text, host) ==
    LET low == ToLowercase(text)
        dotcom == host \o <<".", "c", "o", "m">>
        Sep(n) == Len(text) > n /\ text[n + 1] \in {":", "/"}
    IN  IF StartsWith(low, dotcom) /\ Sep(Len(dotcom))
        THEN Group(DropFirst(text, Len(dotcom) + 1))
        ELSE IF StartsWith(low, host) /\ Sep(Len(host))
             THEN Group(DropFirst(text, Len(host) + 1))
             ELSE NoGroup

\* (?:@([^/\s]+(?:/[^/\s]*)*)?)?$ on what follows the project: whether it
\* matches, and group 2.
TagCaptures(rest) ==
    IF rest = <<>> \/ rest = <<"@">> THEN [matched |-> TRUE, tag |-> NoGroup]
    ELSE LET tag == Tail(rest)
         IN  IF /\ rest[1] = "@"
                /\ tag[1] # "/"
                /\ \A i \in 1..Len(tag) : ~IsSpace(tag[i])
             THEN [matched |-> TRUE, tag |-> Group(tag)]
             ELSE [matched |-> FALSE, tag |-> NoGroup]

\* The segments of a project are not empty and hold no '/' and no '@'.
Segments(project) == Split(project, "/")

\* GITHUB_RELEASE_RE.captures(&url): group 1 is [^/@]+/[^/@]+ .
GithubCaptures(url) ==
    LET body == AfterHost(AfterScheme(url), <<"g", "i", "t", "h", "u", "b">>)
        at == IndexOf(body.v, "@")
        project == IF at = 0 THEN body.v ELSE SubSeq(body.v, 1, at - 1)
        rest == IF at = 0 THEN <<>> ELSE DropFirst(body.v, at - 1)
    IN  IF /\ body.some
           /\ Len(Segments(project)) = 2
           /\ \A i \in 1..2 : Segments(project)[i] # <<>>
           /\ TagCaptures(rest).matched
        THEN [matched |-> TRUE, project |-> Group(project), tag |-> TagCaptures(rest).tag]
        ELSE [matched |-> FALSE, project |-> NoGroup, tag |-> NoGroup]

\* GITLAB_RELEASE_RE.captures(&url): group 1 is (?:\d+)|(?:[^/@]+(?:/[^/@]+)*) .
GitlabCaptures(url) ==
    LET body == AfterHost(AfterScheme(url), <<"g", "i", "t", "l", "a", "b">>)
        at == IndexOf(body.v, "@")
        project == IF at = 0 THEN body.v ELSE SubSeq(body.v, 1, at - 1)
        rest == IF at = 0 THEN <<>> ELSE DropFirst(body.v, at - 1)
    IN  IF /\ body.some
           /\ \A i \in 1..Len(Segments(project)) : Segments(project)[i] # <<>>
           /\ TagCaptures(rest).matched
        THEN [matched |-> TRUE, project |-> Group(project), tag |-> TagCaptures(rest).tag]
        ELSE [matched |-> FALSE, project |-> NoGroup, tag |-> NoGroup]

\* str::trim_matches(&['\'', '"', ' ']).
IsQuote(c) == c \in {"'", "\"", " "}
RECURSIVE TrimQuotesStart(_)
TrimQuotesStart(s) ==
    IF s # <<>> /\ IsQuote(s[1]) THEN TrimQuotesStart(Tail(s)) ELSE s
RECURSIVE TrimQuotesEnd(_)
TrimQuotesEnd(s) ==
    IF s # <<>> /\ IsQuote(s[Len(s)])
    THEN TrimQuotesEnd(SubSeq(s, 1, Len(s) - 1)) ELSE s
TrimMatches(s) == TrimQuotesEnd(TrimQuotesStart(s))

\* Mutant: the regex of decode_uri as (%[A-Fa-f0-9]{1,2})+ , whose matches
\* need not be made of groups of three characters.
RECURSIVE HexRunLen_OneDigit(_)
HexRunLen_OneDigit(s) ==
    IF Len(s) >= 3 /\ s[1] = "%" /\ IsHex(s[2]) /\ IsHex(s[3])
    THEN 3 + HexRunLen_OneDigit(DropFirst(s, 3))
    ELSE IF Len(s) >= 2 /\ s[1] = "%" /\ IsHex(s[2])
         THEN 2 + HexRunLen_OneDigit(DropFirst(s, 2))
         ELSE 0

\* The length of the match of (%[A-Fa-f0-9]{2})+ at the start of s, 0 when
\* there is none.
RECURSIVE HexRunLen(_)
HexRunLen(s) ==
    IF Len(s) >= 3 /\ s[1] = "%" /\ IsHex(s[2]) /\ IsHex(s[3])
    THEN 3 + HexRunLen(DropFirst(s, 3))
    ELSE 0

\* u8::from_str_radix of two hex digits and from_utf8_lossy, for the bytes
\* of the model: %44 is "D", any other byte stands as "?".
ByteChar(h1, h2) == IF h1 = "4" /\ h2 = "4" THEN "D" ELSE "?"

\* The loop of the replace_all closure over one match: `while i != inp.len()`
\* reads inp[i + 1] and inp[i + 2] and adds 3 to i. An index past the end
\* of inp is a panic.
RECURSIVE DecodeRun(_)
DecodeRun(inp) ==
    IF inp = <<>> THEN [ok |-> TRUE, v |-> <<>>]
    ELSE IF Len(inp) < 3 THEN [ok |-> FALSE, v |-> <<>>]
         ELSE LET more == DecodeRun(DropFirst(inp, 3))
              IN  [ok |-> more.ok, v |-> <<ByteChar(inp[2], inp[3])>> \o more.v]

\* decode_uri: every match of the regex is replaced by its decoded bytes.
RECURSIVE DecodeUri(_)
DecodeUri(s) ==
    IF s = <<>> THEN [ok |-> TRUE, v |-> <<>>]
    ELSE LET n == HexRunLen(s)
         IN  IF n = 0
             THEN LET more == DecodeUri(Tail(s))
                  IN  [ok |-> more.ok, v |-> <<s[1]>> \o more.v]
             ELSE LET run == DecodeRun(SubSeq(s, 1, n))
                      more == DecodeUri(DropFirst(s, n))
                  IN  [ok |-> run.ok /\ more.ok, v |-> run.v \o more.v]

\* Url::parse for the URLs of the model. The scheme is a letter followed by
\* letters, digits, '+', '-' or '.', up to the first ':'; without one the
\* input is a relative URL and is refused. After http: or https: the
\* slashes are skipped and a host must follow (after the last '@' of the
\* authority), not empty and with no space and no '%'; the serialized URL
\* has a path, "/" when none was written. After another scheme anything is
\* accepted. The scheme is serialized in lower case.
IsSchemeChar(c) == c \notin {":", "/", "@", "%", "'", " ", "\""}
IsScheme(scheme) ==
    /\ scheme # <<>>
    /\ scheme[1] \notin {"0", "1", "2", "3", "4", "5", "6", "7", "8", "9", "+", "-", "."}
    /\ \A i \in 1..Len(scheme) : IsSchemeChar(scheme[i])
RECURSIVE SkipSlashes(_)
SkipSlashes(s) == IF s # <<>> /\ s[1] = "/" THEN SkipSlashes(Tail(s)) ELSE s
RECURSIVE AfterLast(_, _)
AfterLast(s, c) ==
    IF IndexOf(s, c) = 0 THEN s ELSE AfterLast(DropFirst(s, IndexOf(s, c)), c)
UrlParse(url) ==
    LET colon == IndexOf(url, ":")
        scheme == ToLowercase(SubSeq(url, 1, colon - 1))
        rest == SkipSlashes(DropFirst(url, colon))
        slash == IndexOf(rest, "/")
        authority == IF slash = 0 THEN rest ELSE SubSeq(rest, 1, slash - 1)
        path == IF slash = 0 THEN <<"/">> ELSE DropFirst(rest, slash - 1)
        host == AfterLast(authority, "@")
    IN  IF colon = 0 \/ ~IsScheme(scheme) THEN NoGroup
        ELSE IF scheme \in {<<"h", "t", "t", "p">>, <<"h", "t", "t", "p", "s">>}
             THEN IF host # <<>> /\ \A i \in 1..Len(host) : host[i] \notin {" ", "%"}
                  THEN Group(scheme \o <<":", "/", "/">> \o authority \o path)
                  ELSE NoGroup
             ELSE Group(scheme \o DropFirst(url, colon - 1))

\* The result of parse once the project and the tag are captured:
\* caps.get(1).unwrap() panics on a group that took no part in the match.
Classified(kind, caps) ==
    LET tag == IF caps.tag.some /\ TrimMatches(caps.tag.v) # <<>>
               THEN Group(TrimMatches(caps.tag.v)) ELSE NoGroup
        decoded == DecodeUri(tag.v)
    IN  IF ~caps.project.some \/ ~decoded.ok THEN [kind |-> "panic", v |-> <<>>]
        ELSE IF tag.some
             THEN [kind |-> kind, v |-> caps.project.v \o <<"@">> \o decoded.v]
             ELSE [kind |-> kind, v |-> caps.project.v]

\* PlatformUrl::parse.
Parse(url) ==
    IF StartsWith(url, <<"g", "h", "c", "r", ".", "i", "o">>)
    THEN [kind |-> "Oci", v |-> url]
    ELSE IF GithubCaptures(url).matched
         THEN Classified("Github", GithubCaptures(url))
         ELSE IF GitlabCaptures(url).matched
              THEN LET caps == GitlabCaptures(url)
                   IN  IF ~caps.project.some THEN [kind |-> "panic", v |-> <<>>]
                       ELSE IF \/ StartsWith(caps.project.v, <<"a", "p", "i">>)
                               \/ Contains(caps.project.v, <<"/", "-", "/">>)
                            THEN [kind |-> "DirectUrl", v |-> url]
                            ELSE Classified("Gitlab", caps)
              ELSE IF UrlParse(url).some
                   THEN [kind |-> "DirectUrl", v |-> UrlParse(url).v]
                   ELSE [kind |-> "InvalidInput", v |-> url]

\* The longest run of characters after the project in the inputs.
MaxUrl == 4

\* The inputs of the model: a start, a project and a run of characters.
UrlStarts ==
    {<<>>,
     <<"h", "t", "t", "p", "s", ":", "/", "/">>,
     <<"g", "h", "c", "r", ".", "i", "o", "/">>,
     <<"G", "i", "t", "h", "u", "b", ":">>,
     <<"h", "t", "t", "p", ":", "/", "/", "g", "i", "t", "h", "u", "b", ".", "c", "o", "m", "/">>,
     <<"g", "i", "t", "l", "a", "b", ".", "c", "o", "m", "/">>}
UrlProjects ==
    {<<>>, <<"o", "/", "r">>, <<"4", "2">>, <<"a", "p", "i", "/", "v", "4">>,
     <<"o", "/", "-", "/", "r">>}
UrlChars == {"@", "%", "4", "/", "'", " "}

\* PlatformUrl::parse is called.
InitParse ==
    /\ TransferIdle
    /\ pth = NoPaths
    /\ exe = NoExecute
    /\ http = InitialClient
    /\ rel = NoFetch
    /\ sel = NoSelect
    /\ pat = NoMatch
    /\ \E start \in UrlStarts, project \in UrlProjects,
          rest \in SeqsUpTo(UrlChars, MaxUrl) :
          purl = [NoParse EXCEPT !.pc = "call", !.input = start \o project \o rest]

\* The call returns, or panics.
ParseUrl ==
    /\ purl.pc = "call"
    /\ purl' = [purl EXCEPT !.pc = "done", !.res = Parse(purl.input)]
    /\ UNCHANGED <<transfer, pth, exe, http, rel, sel, pat>>

NextParse == ParseUrl

SpecParse == InitParse /\ [][NextParse]_vars

\* =================================================================
\* Properties of the single-file calls (specification Spec)
\* =================================================================
IsPrefix(a, b) == Len(a) <= Len(b) /\ a = SubSeq(b, 1, Len(a))
IsSuffix(a, b) == Len(a) <= Len(b) /\ a = SubSeq(b, Len(b) - Len(a) + 1, Len(b))

\* The files an interrupted download of version v leaves behind: the part
\* file holds the first k bytes of the resource, the sidecar holds the
\* validators the server sent for it (or none), there is no final file.
ResumableStart(pre, v) ==
    /\ ~pre.final.ex
    /\ pre.part.ex /\ IsPrefix(pre.part.data, Content(v))
    /\ pre.meta.ex /\ pre.meta.ok
    /\ pre.meta.etag \in {0, ETagOf(v)}
    /\ pre.meta.lm \in {0, ModifiedOf(v)}

\* C2: a second Downloader::download call that starts from the part file and
\* sidecar of an interrupted one, with the upstream unchanged and a server
\* that answers 206 from the requested offset or 200 with the full body,
\* ends with the final file a single-shot download (one that starts with
\* none of the three files) ends with: the upstream bytes.
C2_ResumeIdentical ==
    LET r == task[0]
    IN  (r.kind = "dl" /\ r.pc = "done" /\ r.res = "Ok" /\ r.honest
            /\ (ResumableStart(r.pre, r.v0) \/ r.pre = NoFiles))
        => fs[Target].final = File(Content(r.v0))

\* C2 witness: a call resumed from a non-empty part file with a 206 returned Ok.
C2_Witness ==
    LET r == task[0]
    IN  /\ r.kind = "dl" /\ r.pc = "done" /\ r.res = "Ok" /\ r.honest
        /\ ResumableStart(r.pre, r.v0)
        /\ r.pre.part.data # <<>>
        /\ r.resp.status = 206 /\ r.nreq = 1

\* C5: a call sends at most two requests; a 416 on the first response is
\* never returned but restarts the transfer once, and a 416 on the second
\* response is returned as ResourceError with status 416.
C5_AtMostOneRestart ==
    \A t \in Tasks :
        LET r == task[t]
        IN  /\ r.nreq <= 2
            /\ r.attempt <= 1
            /\ (r.nreq = 1 /\ r.resp.status = RANGE_NOT_SATISFIABLE)
                  => \/ r.pc \in {"resp", "restart"}
                     \/ (r.pc = "send" /\ r.attempt = 1)
                     \/ (r.pc = "done" /\ r.res = "Cancelled")
            /\ (r.nreq = 2 /\ r.resp.status = RANGE_NOT_SATISFIABLE /\ r.pc = "done")
                  => \/ (r.res = "ResourceError" /\ r.status = RANGE_NOT_SATISFIABLE)
                     \/ r.res = "Cancelled"

\* C5 witness: 416 twice, the second one returned.
C5_Witness ==
    LET r == task[0]
    IN  /\ r.pc = "done" /\ r.nreq = 2 /\ r.attempt = 1
        /\ r.res = "ResourceError" /\ r.status = RANGE_NOT_SATISFIABLE

\* The three states of a target the steady-state invariant allows.
OnlyFinal(f) == f.final.ex /\ ~f.part.ex /\ ~f.meta.ex
OnlyPartPair(f) == ~f.final.ex /\ f.part.ex /\ f.meta.ex
NoneOfThree(f) == ~f.final.ex /\ ~f.part.ex /\ ~f.meta.ex

\* C6: whenever no call is executing for P (it returned Ok or an error, or
\* was interrupted), P exists alone, or the part file and the sidecar exist
\* without P, or none of the three exists.
C6_SteadyState ==
    task[0].pc \in {"idle", "done"}
        => LET f == fs[Target]
           IN  OnlyFinal(f) \/ OnlyPartPair(f) \/ NoneOfThree(f)

\* C7: a call that returns Ok after a transfer leaves the final file, ending
\* with the bytes streamed in that call, and neither part file nor sidecar.
C7_SuccessLeavesOnlyFinal ==
    \A t \in Tasks :
        LET r == task[t]
            f == fs[r.path]
        IN  (r.pc = "done" /\ r.res = "Ok" /\ r.xfer)
            => /\ f.final.ex /\ ~f.part.ex /\ ~f.meta.ex
               /\ IsSuffix(r.streamed, f.final.data)

\* C7 witness: a pull_layer call that streamed bytes returned Ok.
C7_Witness ==
    LET r == task[0]
    IN  r.pc = "done" /\ r.res = "Ok" /\ r.xfer /\ r.kind = "pull"
        /\ r.streamed # <<>>

\* The value of the last Progress event, 0 when there is none.
LastProgress ==
    LET idx == {i \in 1..Len(events) : events[i].ev = "Progress"}
    IN  IF idx = {} THEN 0
        ELSE events[CHOOSE i \in idx : \A j \in idx : j <= i].n

\* C8: in Downloader::download every Progress(n) carries the size of the
\* part file at that moment, and when Complete follows Preparing(total) with
\* total > 0 the last Progress value is total.
C8_ProgressIsPartSize ==
    LET r == task[0]
        f == fs[Target]
    IN  r.kind = "dl" /\ events # <<>>
        => /\ (events[Len(events)].ev = "Progress" /\ f.part.ex)
                => events[Len(events)].n = Len(f.part.data)
           /\ (events[Len(events)].ev = "Complete" /\ events[1].n > 0)
                => LastProgress = events[1].n

\* C10: the events of one Downloader::download call are one Preparing first,
\* then Progress events with non-decreasing values, then at most one
\* Complete, which is the last event.
C10_EventOrder ==
    task[0].kind = "dl"
        => /\ events # <<>> => events[1].ev = "Preparing"
           /\ \A i \in 2..Len(events) : events[i].ev # "Preparing"
           /\ \A i \in 1..Len(events) :
                  events[i].ev = "Complete" => i = Len(events)
           /\ \A i, j \in 1..Len(events) :
                  (i < j /\ events[i].ev = "Progress" /\ events[j].ev = "Progress")
                      => events[i].n <= events[j].n

\* C10 witness: Preparing, two Progress events, Complete.
C10_Witness ==
    /\ task[0].kind = "dl" /\ task[0].pc = "done"
    /\ Len(events) >= 4
    /\ events[2].ev = "Progress" /\ events[3].ev = "Progress"
    /\ events[Len(events)].ev = "Complete"

\* =================================================================
\* Properties of the OCI downloader (specifications SpecOci, FairSpecRetry)
\* =================================================================
\* C1: during download_oci with concurrency N (1 when unset) at most N
\* pull_layer tasks are in flight, each of them holding one of the N permits
\* from before it is spawned until it has finished.
C1_BoundedInFlight ==
    mgr.pc \in {"loop", "spawn"}
        => /\ Cardinality(InFlight) <= Capacity(mgr.conc)
           /\ permits + Cardinality(InFlight) <= Capacity(mgr.conc)

\* C3: download_oci returns Ok, and emits Complete, only when every selected
\* layer has been pulled successfully (now or in an earlier call); when a
\* spawned pull failed it returns an error.
C3_OkOnlyIfAllPulled ==
    (mgr.ref = "manifest" /\ mgr.pc = "ret")
        => /\ mgr.res = "Ok" => \A l \in Layers : l \in completed
           /\ (\E l \in Layers : task[l].pc = "finished" /\ task[l].res # "Ok")
                 => mgr.res # "Ok"
           /\ (events # <<>> /\ events[Len(events)].ev = "Complete")
                 => \A l \in Layers : l \in completed

\* The errors after which the claim lets handle_oci_download call again.
IsRateLimitOrChunk(m) ==
    (m.res = "ResourceError" /\ m.status = 429) \/ m.res = "ChunkError"

C9_LastProgressIsTotal ==
    (mgr.ref = "manifest" /\ events # <<>> /\ events[Len(events)].ev = "Complete")
        => /\ events[1] = Preparing(SumSizes(Layers))
           /\ LastProgress = events[1].n

\* The call started with a part file and a sidecar, and the etag of its
\* first response is present and differs from the etag stored in the sidecar.
ChangedUpstream(r) ==
    /\ r.kind = "dl" /\ r.nreq >= 1
    /\ r.pre.part.ex /\ r.pre.meta.ex /\ r.pre.meta.ok
    /\ r.pre.meta.etag # 0 /\ r.etag1 # 0
    /\ r.etag1 # r.pre.meta.etag

\* C12: when a part file and its sidecar exist and the etag of the response
\* differs from the stored one, Downloader::download removes the part file
\* and the sidecar, sends a second request from offset 0, and on Ok the
\* final file is the new upstream content, with no byte of the old part.
C12_ChangedRestartsFresh ==
    LET r == task[0]
        f == fs[Target]
    IN  ChangedUpstream(r)
        => /\ r.nreq = 1 => r.pc \in {"resp", "restart", "send", "done"}
           /\ (r.nreq = 1 /\ r.pc = "done") => r.res = "Cancelled"
           /\ (r.nreq = 1 /\ r.pc = "send") => (~f.part.ex /\ ~f.meta.ex)
           /\ (r.nreq = 2 /\ r.pc = "resp") => r.req.range = 0
           /\ (r.pc = "done" /\ r.res = "Ok")
                => /\ f.final = File(Content(ver[Target]))
                   /\ \A i \in 1..Len(f.final.data) :
                          \A k \in 1..Len(r.pre.part.data) :
                              f.final.data[i] # r.pre.part.data[k]

\* The call found a non-empty part file and its Range request, the only
\* request it sent, was answered 200 OK with the full body.
FullBodyOnResume(r) ==
    /\ r.kind = "dl" /\ r.nreq = 1
    /\ r.pre.part.ex /\ r.pre.part.data # <<>>
    /\ r.resp.status = OK /\ r.resp.body = Content(r.v0)

\* C13: when a non-empty part file exists and the Range request is answered
\* 200 OK with the full body, Downloader::download empties the part file
\* before it writes the body, and on Ok the final file is the full body.
C13_OkTruncatesPart ==
    LET r == task[0]
        f == fs[Target]
    IN  FullBodyOnResume(r)
        => /\ r.pc = "meta" => f.part = File(<<>>)
           /\ r.pc = "stream" => f.part = File(r.streamed)
           /\ (r.pc = "done" /\ r.res = "Ok")
                => (r.xfer /\ f.final = File(r.resp.body))

\* C13 witness: such a call returned Ok.
C13_Witness ==
    LET r == task[0]
    IN  FullBodyOnResume(r) /\ r.pc = "done" /\ r.res = "Ok"
        /\ fs[Target].final = File(Content(r.v0))

\* C14: when the final file exists, no part file exists and file_mode is
\* SkipExisting, Downloader::download sends no request, emits no event,
\* leaves the three files as they were and returns Ok with the target path.
C14_SkipReadsNoNetwork ==
    LET r == task[0]
    IN  (r.kind = "dl" /\ r.mode = "Skip" /\ r.pre.final.ex /\ ~r.pre.part.ex)
        => /\ r.nreq = 0
           /\ events = <<>>
           /\ fs[Target] = r.pre
           /\ r.pc = "done" => r.res \in {"Ok", "Cancelled"}

\* C15: a file name in Content-Disposition replaces the file name only when
\* that name was derived from the URL (no output path, or an output path
\* that is a directory); with an explicit file path as output_path the path
\* written and returned is that output_path whatever the header says.
C15_ExplicitPathWins ==
    pth.pc = "done" /\ pth.out # Stdout
        => IF pth.out # <<>> /\ ~pth.slash /\ ~pth.isdir
           THEN pth.written = pth.out /\ pth.returned = pth.out
           ELSE /\ pth.written = pth.returned
                /\ pth.hdrname # <<>>
                      => pth.written = (IF pth.out = <<>> THEN <<pth.hdrname>>
                                        ELSE Join2(pth.out, pth.hdrname))

\* C16: a Downloader::download call with output_path "-" creates neither a
\* part file nor a sidecar at any point of any run (success, restart, error,
\* cancellation), writes no final file, emits no event, and returns "-"
\* when it succeeds.
C16_StdoutCreatesNoFiles ==
    LET r == task[0]
        f == fs[Target]
    IN  (r.kind = "dl" /\ r.out = "-")
        => /\ f.part.ex => (r.pre.part.ex /\ f.part = r.pre.part)
           /\ f.meta.ex => (r.pre.meta.ex /\ f.meta = r.pre.meta)
           /\ f.final = r.pre.final
           /\ (r.pc = "done" /\ r.res = "Ok")
                => (r.ret = "-" /\ r.streamed = r.resp.body)

\* C16 witness: a call with output "-" found a part file and a sidecar,
\* restarted, streamed the body to stdout and returned "-".
C16_Witness ==
    LET r == task[0]
    IN  /\ r.kind = "dl" /\ r.out = "-" /\ r.pc = "done" /\ r.res = "Ok"
        /\ r.ret = "-" /\ r.attempt = 1 /\ r.pre.part.ex
        /\ r.streamed = Content(r.v0)

\* C17: when the sidecar exists and does not decode, Downloader::download
\* and OciClient::pull_layer go on as if there were no sidecar, with no
\* stored etag and last-modified: they neither panic nor return an error
\* for it.
C17_CorruptSidecarIgnored ==
    \A t \in Tasks :
        LET r == task[t]
        IN  (r.kind \in {"dl", "pull"} /\ r.pre.meta.ex /\ ~r.pre.meta.ok)
            => /\ r.res \notin {"Panic", "InvalidResponse"}
               /\ (r.pc = "send" /\ r.nreq = 0) => (r.etag = 0 /\ r.lm = 0)
               /\ (r.pc = "done" /\ r.nreq = 0) => r.res = "Cancelled"

\* C18: in DownloadManager::execute no failure met while one input is
\* processed keeps the inputs after it, of the same group or of a later
\* one, from being processed: when execute stops every input was processed.
C18_FailureNeverHalts ==
    exe.pc \in {"end", "panicked"} => exe.processed = AllInputs

\* C19: configure_http_client replaces the client and the config together
\* under the write lock: whenever no writer holds the lock the stored client
\* is the one built from the stored config, and so is every pair a reader
\* sees; a call whose build fails returns the error and leaves the client
\* and the config as they were when it took the lock, and a call that
\* returns Ok leaves the client built from its new config beside it.
C19_AtomicReconfigure ==
    /\ [](/\ http.w = "none" => http.client = ClientOf(http.config)
          /\ \A t \in Readers :
                LET seen == http.thr[t].seen
                IN  seen # <<>> => seen[1] = ClientOf(seen[2]))
    /\ [][\A t \in Writers :
            (http.thr[t].pc = "updated" /\ http'.thr[t].pc = "idle")
                => /\ http'.thr[t].res = "Err"
                   /\ <<http'.client, http'.config>> = http.thr[t].old
                   /\ http'.w = "none"]_vars
    /\ [][\A t \in Writers :
            (http.thr[t].pc = "config_set" /\ http'.thr[t].pc = "idle")
                => /\ http'.thr[t].res = "Ok"
                   /\ http'.config = http.thr[t].new_config
                   /\ http'.client = ClientOf(http.thr[t].new_config)]_vars

\* C19 witness: after a successful reconfiguration to a proxy, a second one
\* failed to build and a reader saw the client and config of the first.
C19_Witness ==
    /\ http.thr["w1"].res = "Ok" /\ http.thr["w2"].res = "Err"
    /\ http.thr["w2"].pc = "idle"
    /\ http.config.proxy = "url"
    /\ http.thr["r1"].seen = <<ClientOf(http.config), http.config>>

\* The outcome of the last call fetch_releases made.
LastOutcome == rel.calls[Len(rel.calls)].outcome

C21_TokenOnlyToPrimary ==
    \A i \in 1..Len(rel.calls) :
        /\ rel.calls[i].api = "PkgForge" => ~rel.calls[i].auth
        /\ rel.calls[i].api = "Primary" => (rel.calls[i].auth <=> rel.token)

\* C21 witness: with the token set, a request went to the mirror and then one
\* with the header to the primary API.
C21_Witness ==
    /\ rel.token
    /\ Len(rel.calls) = 2
    /\ rel.calls[1].api = "PkgForge"
    /\ rel.calls[2].api = "Primary" /\ rel.calls[2].auth

\* The list without its i-th element.
RemoveAt(s, i) == SubSeq(s, 1, i - 1) \o SubSeq(s, i + 1, Len(s))

\* C22: filter_releases selects, when a tag is supplied, the first release
\* of the list whose tag_name equals the tag, and otherwise the first release
\* that is not a prerelease, or the first of the list when all are; when it
\* selects none it returns NoRelease carrying the requested tag.
C22_SelectsRelease ==
    sel.pc = "done" =>
        LET rs == sel.releases
            n == Len(rs)
            Chosen(i) ==
                IF sel.tag.some
                THEN /\ rs[i].tag_name = sel.tag.v
                     /\ \A j \in 1..(i - 1) : rs[j].tag_name # sel.tag.v
                ELSE \/ ~rs[i].prerelease /\ \A j \in 1..(i - 1) : rs[j].prerelease
                     \/ i = 1 /\ \A j \in 1..n : rs[j].prerelease
        IN  IF \E i \in 1..n : Chosen(i)
            THEN sel.release # 0 /\ Chosen(sel.release) /\ sel.res.kind # "NoRelease"
            ELSE sel.res = [kind |-> "NoRelease", tag |-> sel.tag]

\* C23: PlatformUrl::parse is total: for every input it returns Oci, Github,
\* Gitlab, DirectUrl or the error InvalidInput, and never panics.
C23_ParseTotal ==
    purl.pc = "done" =>
        purl.res.kind \in {"Oci", "Github", "Gitlab", "DirectUrl", "InvalidInput"}

\* C23 witness: a GitHub URL whose tag holds a percent-encoded byte was
\* classified, the tag decoded.
C23_Witness ==
    /\ purl.pc = "done"
    /\ purl.res.kind = "Github"
    /\ Contains(purl.input, <<"@", "%", "4", "4">>)
    /\ Contains(purl.res.v, <<"@", "D">>)

\* C26: a layer digest enters completed_layers only in the step that follows
\* the Ok return of that layer's pull_layer, and no pull is started or
\* running for a layer whose digest is in completed_layers, in the first
\* download_oci of an OciDownloader or in a later one.
C26_CompletedLayers ==
    /\ [](/\ \A l \in Layers :
                task[l].pc \notin {"idle", "finished"} => task[l].digest \notin completed
          /\ mgr.pc = "spawn" => mgr.idx \notin completed)
    /\ [][\A d \in completed' \ completed :
              /\ task[d].pc = "done"
              /\ task[d].res = "Ok"
              /\ task[d].digest = d]_vars

\* C26 witness: in a second download_oci on the same OciDownloader one layer
\* is in completed_layers and was skipped, and the pull of another is running.
C26_Witness ==
    /\ mgr.inv = 2
    /\ mgr.pc = "loop"
    /\ 1 \in completed /\ task[1].pc = "idle"
    /\ mgr.idx > 2
    /\ task[2].pc \notin {"idle", "finished"}

\* C27: a call that is interrupted (cancelled, or failed by a network or
\* chunk error) after it opened the part file and before the rename leaves
\* the part file and the sidecar on disk, and the first request of the next
\* call on a target with a non-empty part file asks for the range that
\* starts at the size of the part file.
C27_InterruptedLeavesPair ==
    /\ [][\A t \in Tasks :
            (/\ task[t].pc \in {"meta", "stream"}
             /\ task'[t].pc = "done"
             /\ task'[t].res \in {"Cancelled", "NetworkError", "ChunkError"})
                => /\ fs'[task[t].path].part.ex
                   /\ fs'[task[t].path].meta.ex]_vars
    /\ [](\A t \in Tasks :
            (/\ task[t].pc = "resp" /\ task[t].nreq = 1
             /\ task[t].pre.part.ex /\ task[t].pre.part.data # <<>>)
                => task[t].req.range = Len(task[t].pre.part.data))

\* C28: a call leaves the examination of a response by the restart (the
\* part file and the sidecar are discarded and the request is sent again)
\* if and only if it is on its first attempt and the status is 416, or the
\* stored and the received etag are both present and differ, or the stored
\* and the received last-modified are both present and differ.
C28_RestartIff ==
    [][\A t \in Tasks :
        (/\ task[t].pc = "resp"
         /\ task'[t].pc # "resp"
         /\ task'[t].res # "Cancelled")
            => (task'[t].pc = "restart" <=>
                    /\ task[t].attempt = 0
                    /\ \/ task[t].resp.status = 416
                       \/ /\ task[t].etag # 0 /\ task[t].resp.etag # 0
                          /\ task[t].etag # task[t].resp.etag
                       \/ /\ task[t].lm # 0 /\ task[t].resp.lm # 0
                          /\ task[t].lm # task[t].resp.lm)]_vars

\* C29: a request carries a Range header only when downloaded > 0, and then
\* for the range that starts at `downloaded`; its If-Range validator is the
\* stored etag whenever there is one, and the stored last-modified is used
\* as If-Range only when there is no stored etag.
C29_ResumeHeaders ==
    \A t \in Tasks :
        task[t].pc = "resp" =>
            LET r == task[t]
                q == r.req
            IN  /\ q.range # -1 => (r.downloaded > 0 /\ q.range = r.downloaded)
                /\ q.range = -1 => q.ifrange = <<>>
                /\ (q.range # -1 /\ r.etag # 0) => q.ifrange = <<<<"etag", r.etag>>>>
                /\ (q.range # -1 /\ r.etag = 0 /\ r.lm # 0) => q.ifrange = <<<<"lm", r.lm>>>>
                /\ (q.range # -1 /\ r.etag = 0 /\ r.lm = 0) => q.ifrange = <<>>

\* C30: when pull_layer starts with a non-empty part file and the accepted
\* response is 200 OK with the full blob, the call that returns Ok after a
\* transfer leaves a final file equal to the full blob.
C30_FullBlobReplacesPart ==
    \A t \in Tasks :
        (/\ task[t].kind = "pull"
         /\ task[t].pc = "done" /\ task[t].res = "Ok" /\ task[t].xfer
         /\ task[t].pre.part.ex /\ task[t].pre.part.data # <<>>
         /\ task[t].resp.status = OK)
            => fs[task[t].path].final = File(task[t].resp.body)

\* C31: with extract_archive set, whenever Complete has been handed to the
\* callback the call has returned Ok with the final path: Complete is the
\* last step, after the extraction has succeeded.
C31_CompleteAfterExtract ==
    (\E i \in 1..Len(events) : events[i] = Complete)
        => (task[0].pc = "done" /\ task[0].res = "Ok" /\ task[0].ret = "target")

\* C32: the part file of a Downloader::download call that wrote the final
\* path P is P with ".part" appended and its sidecar P with ".part.meta"
\* appended, the pieces of the file name of P all kept.
C32_PartPathAppends ==
    (pth.pc = "done" /\ pth.out # Stdout)
        => /\ pth.part = GetPartPaths(pth.written).part
           /\ pth.meta = GetPartPaths(pth.written).meta

\* C32 for the calls whose final path has a file name of one piece and is
\* not replaced by a Content-Disposition name.
C32_HoldsWithoutExtension ==
    (pth.pc = "done" /\ pth.out # Stdout /\ pth.hdrname = <<>>
     /\ Len(pth.written[Len(pth.written)]) = 1)
        => /\ pth.part = GetPartPaths(pth.written).part
           /\ pth.meta = GetPartPaths(pth.written).meta

\* C33: in download_oci on a manifest reference, Complete is handed to the
\* callback only when every spawned layer task has terminated and no event
\* follows it, and while the layer loop runs the first event is the one
\* Preparing of the call, emitted before any task was spawned.
C33_CompleteAfterTasks ==
    mgr.ref = "manifest" =>
        /\ \A i \in 1..Len(events) :
              events[i] = Complete =>
                  /\ i = Len(events)
                  /\ \A l \in Layers : task[l].pc \in {"idle", "finished"}
        /\ mgr.pc \in {"loop", "spawn"} =>
              /\ events # <<>>
              /\ events[1].ev = "Preparing"
              /\ \A i \in 2..Len(events) : events[i].ev = "Progress"

\* A call of download_oci whose layer tasks all ran, reported progress and
\* finished, and which then emitted Complete.
C33_Witness ==
    /\ mgr.ref = "manifest"
    /\ mgr.pc = "ret"
    /\ events # <<>> /\ events[Len(events)] = Complete
    /\ \E i \in 1..Len(events) : events[i].ev = "Progress"
    /\ \A l \in Layers : task[l].pc = "finished"

\* C34: a call of download_oci that has started returns (Ok or an error),
\* whatever the value of the concurrency option, when the manifest request
\* and the layer pulls terminate.
C34_DownloadOciTerminates ==
    (mgr.pc \in {"manifest", "loop", "spawn", "blob"})
        ~> (mgr.pc \in {"ret", "check", "done"})

\* C34 for the values of the concurrency option other than Some(0).
C34_TerminatesWithPermits ==
    (mgr.conc # 0 /\ mgr.pc \in {"manifest", "loop", "spawn", "blob"})
        ~> (mgr.pc \in {"ret", "check", "done"})

\* C35: no two layer tasks of download_oci that are in flight at the same
\* time operate on the same output path (and so on the same part file and
\* sidecar), whatever titles the layers of the manifest carry.
C35_DistinctLayerPaths ==
    \A l1 \in InFlight, l2 \in InFlight :
        l1 # l2 => task[l1].path # task[l2].path

\* C35 for the manifests whose layers carry titles that differ.
C35_HoldsForDistinctTitles ==
    (\A l1 \in Layers, l2 \in Layers :
        l1 # l2 => FilePath(mgr.ref, l1) # FilePath(mgr.ref, l2))
        => \A l1 \in InFlight, l2 \in InFlight :
               l1 # l2 => task[l1].path # task[l2].path

\* The terminal events among the events of the current call.
Terminals == {i \in 1..Len(events) : events[i] \in {Complete, Error}}

\* C36: a Downloader::download call that emitted Preparing and whose transfer
\* ended (it returned, and was not cancelled or killed) has emitted exactly
\* one terminal event: Complete when it returned Ok, Error when it failed.
C36_OneTerminalEvent ==
    LET r == task[0]
    IN  (/\ r.kind = "dl" /\ r.pc = "done"
         /\ r.res \notin {"Cancelled", "Killed"}
         /\ \E i \in 1..Len(events) : events[i].ev = "Preparing")
            => /\ Cardinality(Terminals) = 1
               /\ events[Len(events)] = (IF r.res = "Ok" THEN Complete ELSE Error)

\* C36 for the calls that return Ok.
C36_HoldsOnSuccess ==
    LET r == task[0]
    IN  (/\ r.kind = "dl" /\ r.pc = "done" /\ r.res = "Ok"
         /\ \E i \in 1..Len(events) : events[i].ev = "Preparing")
            => /\ Cardinality(Terminals) = 1
               /\ events[Len(events)] = Complete

\* C37: a Downloader::download or pull_layer call with file_mode SkipExisting
\* that finds the final file present when it starts leaves that file as it
\* found it, at every point of the call and after it, whatever part file or
\* sidecar is present.
C37_SkipKeepsFinal ==
    \A t \in Tasks :
        (task[t].kind \in {"dl", "pull"} /\ task[t].mode = "Skip"
         /\ task[t].out = "path" /\ task[t].pre.final.ex)
            => fs[task[t].path].final = task[t].pre.final

\* C37 for the calls that find no part file next to the final file.
C37_HoldsWithoutPart ==
    \A t \in Tasks :
        (task[t].kind \in {"dl", "pull"} /\ task[t].mode = "Skip"
         /\ task[t].out = "path" /\ task[t].pre.final.ex /\ ~task[t].pre.part.ex)
            => fs[task[t].path].final = task[t].pre.final

\* Some configure_http_client call has returned Ok and none is running.
Reconfigured ==
    /\ http.w = "none"
    /\ \E t \in Writers : http.thr[t].res = "Ok"

\* C38: a Downloader made by Downloader::default() after a
\* configure_http_client call returned Ok (and while none is running) sends
\* its requests with the client that call configured, the one the shared
\* state holds.
C38_DefaultUsesNewClient ==
    [][(Reconfigured /\ http.used = <<>> /\ http'.used # <<>>)
          => http'.used = <<http.client>>]_vars

\* C38 for the Downloaders that are the first to dereference SHARED_CLIENT.
C38_HoldsOnFirstUse ==
    [][(Reconfigured /\ http.shared = <<>> /\ http.used = <<>> /\ http'.used # <<>>)
          => http'.used = <<http.client>>]_vars

\* C39: every string PlatformUrl::parse returns as DirectUrl parses as an
\* absolute URL (Url::parse, the first step of Downloader::download, accepts
\* it), the GitLab fall-through inputs included.
C39_DirectUrlParses ==
    (purl.pc = "done" /\ purl.res.kind = "DirectUrl")
        => UrlParse(purl.res.v).some

\* C39 for the DirectUrl results that come from the last rule of parse.
C39_HoldsOutsideGitlabRule ==
    (purl.pc = "done" /\ purl.res.kind = "DirectUrl"
     /\ ~GitlabCaptures(purl.input).matched)
        => UrlParse(purl.res.v).some

\* C24: matches_pattern is monotone: a name rejected by a configuration is
\* rejected when an exclusion keyword is added to it, and a name accepted by
\* a configuration is accepted when one of its regexes or globs is removed.
C24_Monotone ==
    pat.pc = "done" =>
        /\ \A kw \in Keywords :
              MatchesPattern(pat.name, pat.regexes, pat.globs, pat.match_keywords,
                             Append(pat.exclude_keywords, kw), pat.exact_case)
                  => pat.accepted
        /\ \A i \in 1..Len(pat.regexes) :
              pat.accepted =>
                  MatchesPattern(pat.name, RemoveAt(pat.regexes, i), pat.globs,
                                 pat.match_keywords, pat.exclude_keywords,
                                 pat.exact_case)
        /\ \A i \in 1..Len(pat.globs) :
              pat.accepted =>
                  MatchesPattern(pat.name, pat.regexes, RemoveAt(pat.globs, i),
                                 pat.match_keywords, pat.exclude_keywords,
                                 pat.exact_case)

\* C24 witness: a name accepted under a regex, a glob and an exclusion
\* keyword, which one more exclusion keyword would reject.
C24_Witness ==
    /\ pat.pc = "done" /\ pat.accepted
    /\ pat.regexes # <<>> /\ pat.globs # <<>> /\ pat.exclude_keywords # <<>>
    /\ \E kw \in Keywords :
          ~MatchesPattern(pat.name, pat.regexes, pat.globs, pat.match_keywords,
                          Append(pat.exclude_keywords, kw), pat.exact_case)

\* The non-empty comma-separated parts of a keyword, as written and with the
\* white space around each part removed.
PartsAsWritten(keyword) ==
    {Split(keyword, ",")[i] : i \in 1..Len(Split(keyword, ","))} \ {<<>>}
PartsTrimmed(keyword) ==
    {Trim(Split(keyword, ",")[i]) : i \in 1..Len(Split(keyword, ","))} \ {<<>>}

\* A part is a substring of the name: of the lowercased name and part when
\* exact_case is false, of the unmodified strings when it is true.
IsSubstring(part, name, exact_case) ==
    LET p == IF exact_case THEN part ELSE ToLowercase(part)
        n == IF exact_case THEN name ELSE ToLowercase(name)
    IN  \E i \in 1..(Len(n) - Len(p) + 1) : \A j \in 1..Len(p) : n[i + j - 1] = p[j]

\* C25 as stated: matches_pattern accepts a name iff every regex and every
\* glob matches it, every non-empty comma-separated part of every inclusion
\* keyword is a substring of it and no non-empty comma-separated part of an
\* exclusion keyword is.
C25_AcceptsIffAsWritten ==
    pat.pc = "done" =>
        (pat.accepted <=>
            /\ \A i \in 1..Len(pat.regexes) : RegexIsMatch(pat.regexes[i], pat.name)
            /\ \A i \in 1..Len(pat.globs) : GlobMatch(pat.globs[i], pat.name)
            /\ \A k \in 1..Len(pat.match_keywords) :
                  \A part \in PartsAsWritten(pat.match_keywords[k]) :
                      IsSubstring(part, pat.name, pat.exact_case)
            /\ \A k \in 1..Len(pat.exclude_keywords) :
                  \A part \in PartsAsWritten(pat.exclude_keywords[k]) :
                      ~IsSubstring(part, pat.name, pat.exact_case))

\* C25, amended: matches_pattern accepts a name iff every regex and every
\* glob matches it, every comma-separated part of every inclusion keyword
\* that is not empty once the white space around it is removed is, so
\* trimmed, a substring of it, and no such part of an exclusion keyword is.
C25_AcceptsIffTrimmed ==
    pat.pc = "done" =>
        (pat.accepted <=>
            /\ \A i \in 1..Len(pat.regexes) : RegexIsMatch(pat.regexes[i], pat.name)
            /\ \A i \in 1..Len(pat.globs) : GlobMatch(pat.globs[i], pat.name)
            /\ \A k \in 1..Len(pat.match_keywords) :
                  \A part \in PartsTrimmed(pat.match_keywords[k]) :
                      IsSubstring(part, pat.name, pat.exact_case)
            /\ \A k \in 1..Len(pat.exclude_keywords) :
                  \A part \in PartsTrimmed(pat.exclude_keywords[k]) :
                      ~IsSubstring(part, pat.name, pat.exact_case))

\* C25 witness: the name "ab" is accepted with the inclusion keyword " b",
\* whose only part is a substring of it once trimmed and not as written.
C25_Witness ==
    /\ pat.pc = "done" /\ pat.accepted
    /\ pat.name = <<"a", "b">>
    /\ pat.match_keywords = <<<<" ", "b">>>>
    /\ pat.exclude_keywords = <<<<",", " ">>>>

\* C11: in download_oci the Progress values handed to the shared callback
\* are non-decreasing under every interleaving of the layer tasks: the
\* counter is incremented and its new value emitted under the counter mutex.
C11_ProgressMonotone ==
    mgr.ref = "manifest"
        => \A i, j \in 1..Len(events) :
               (i < j /\ events[i].ev = "Progress" /\ events[j].ev = "Progress")
                   => events[i].n <= events[j].n

\* C11 witness: two layer tasks are streaming at once, each has reported
\* bytes, and the shared callback has seen a Progress value above 1.
C11_Witness ==
    /\ mgr.ref = "manifest"
    /\ task[1].pc = "stream" /\ task[1].streamed # <<>> /\ task[1].stream # <<>>
    /\ task[2].pc = "stream" /\ task[2].streamed # <<>>
    /\ LastProgress = 2

====
